---- MODULE Spec2Model ----
(***************************************************************************)
(* Model of the OpenF1 Python client: the HTTP transport with its retry    *)
(* and error mapping (http_client.py, errors.py), the OAuth2 token model   *)
(* and password-grant provider (auth.py) and the client's authentication   *)
(* set-up (client.py).                                                     *)
(*                                                                         *)
(* The specifications share the variables:                                 *)
(*   SpecHTTP    one SyncHTTPClient.request at a time, attempt by attempt  *)
(*   SpecToken   one TokenInfo and the clock                               *)
(*   Spec        the OpenF1Client life cycle                               *)
(*   SpecQuery   build_query_params on bounded filter maps (utils.py)      *)
(*   SpecFetch   OpenF1Transport.fetch, fetch_json and fetch_csv           *)
(*   SpecConfig  ClientConfig objects: construction, with_token, copy      *)
(*   SpecAuth    the three providers behind an AuthManager                 *)
(*   SpecBuilder a FilterBuilder and the dictionaries it hands out         *)
(*   SpecInfo    TokenInfo objects however they are constructed            *)
(*   SpecGrant   callers of one PasswordAuthProvider, statement by         *)
(*               statement                                                 *)
(*   SpecSwap    _setup_authenticated_client, statement by statement       *)
(***************************************************************************)
EXTENDS Integers, Sequences, FiniteSets, TLC

VARIABLES
    req,        \* the SyncHTTPClient.request call in progress
    reqResult,  \* what the last finished request call returned or raised
    now,        \* time.time(), in seconds
    token,      \* SpecToken: the TokenInfo under test
    created,    \* SpecToken: the instant from_response built it
    client,     \* Spec: the OpenF1Client's fields
    sessions,   \* Spec: every SyncHTTPClient created so far: its config token and open flag
    last,       \* Spec: the last client operation and what the caller observed
    query,      \* SpecQuery: the last build_query_params call, arguments and result
    fetched,    \* SpecFetch: the OpenF1Transport.fetch call whose GET is in req
    configs,    \* SpecConfig: every ClientConfig object that exists
    headers,    \* SpecConfig: the extra_headers dict objects, by identity
    provider,   \* SpecAuth: the authentication provider an AuthManager wraps
    authOp,     \* SpecAuth: the last provider or manager call and what it did
    builder,    \* SpecBuilder: the FilterBuilder and the dicts build() returned
    dicts,      \* SpecBuilder: the dict objects of the builder's heap, by identity
    grant,      \* SpecGrant: a PasswordAuthProvider and the calls in progress on it
    swap        \* SpecSwap: where _setup_authenticated_client stands, statement by statement

httpVars == <<req, reqResult>>
tokenVars == <<now, token, created>>
clientVars == <<client, sessions, last>>
queryVars == <<query, fetched>>
configVars == <<configs, headers>>
authVars == <<provider, authOp>>
builderVars == <<builder, dicts>>
stepVars == <<grant, swap>>

vars ==
    <<httpVars, tokenVars, clientVars, queryVars, configVars, authVars, builderVars,
      stepVars>>

\* Optional values: None is the empty sequence, Some(x) a one-element sequence.
None == <<>>
Some(x) == <<x>>

\* The endpoint accessors of the client that the model exercises.
Accessors == {"sessions", "laps"}

\* The client before OpenF1Client.__init__ has run.
NoClient ==
    [phase |-> "new", kind |-> "anonymous", has_credentials |-> FALSE,
     config_token |-> None, provider |-> "none", token_info |-> None,
     static_token |-> "", http |-> 0, provider_http |-> 0,
     endpoints |-> [a \in Accessors |-> 0], eager |-> None, explicit |-> None]

\* What the caller of the last operation observed. `raised` is the exception that
\* reached the caller ("none": the call returned), `header` the Authorization
\* header of the data request sent, `exchange` the answer of the token endpoint
\* when the operation made a token exchange (None when it made none), `via` the
\* SyncHTTPClient used, `held_valid` whether the provider held an unexpired token
\* when the operation began.
Last(op, raised, value, header, exchange, via, held_valid) ==
    [op |-> op, raised |-> raised, value |-> value, header |-> header,
     exchange |-> exchange, via |-> via, held_valid |-> held_valid]

NoLast == Last("none", "none", None, None, None, 0, FALSE)

\* SpecConfig: the last ClientConfig operation: its name, the object it was called on
\* (0: none), its argument, the field values it passed to ClientConfig(...), and the
\* exception it raised.
ConfigOp(op, on, arg, fields, raised) ==
    [op |-> op, on |-> on, arg |-> arg, fields |-> fields, raised |-> raised]

\* No ClientConfig yet. `objects` are the configurations that exist, `made` says for
\* each how it came to be (the operation and the object it was derived from).
NoConfigs ==
    [objects |-> <<>>, made |-> <<>>, last |-> ConfigOp("none", 0, None, None, "none")]

-----------------------------------------------------------------------------
(* errors.py: raise_for_status                                              *)

\* An outcome of a call: kind "none" is a normal return.
Outcome(kind, status, body, url, retry_after, timeout) ==
    [kind |-> kind, status_code |-> status, response_body |-> body,
     request_url |-> url, retry_after |-> retry_after, timeout |-> timeout]

NoError == Outcome("none", None, None, None, None, None)

APIErrorOf(kind, status_code, response_body, request_url, retry_after) ==
    Outcome(kind, Some(status_code), Some(response_body), Some(request_url),
            retry_after, None)

raise_for_status_shifted(status_code, response_body, request_url, retry_after) ==
    IF 200 <= status_code /\ status_code < 300 THEN NoError
    ELSE IF status_code \in {401, 403}
        THEN APIErrorOf("OpenF1AuthError", status_code, response_body, request_url, None)
    ELSE IF status_code = 404
        THEN APIErrorOf("OpenF1NotFoundError", status_code, response_body, request_url, None)
    ELSE IF status_code = 429
        THEN APIErrorOf("OpenF1RateLimitError", status_code, response_body,
                        request_url, retry_after)
    ELSE IF 500 < status_code /\ status_code < 600
        THEN APIErrorOf("OpenF1ServerError", status_code, response_body, request_url, None)
    ELSE APIErrorOf("OpenF1APIError", status_code, response_body, request_url, None)

raise_for_status(status_code, response_body, request_url, retry_after) ==
    IF 200 <= status_code /\ status_code < 300 THEN NoError
    ELSE IF status_code \in {401, 403}
        THEN APIErrorOf("OpenF1AuthError", status_code, response_body, request_url, None)
    ELSE IF status_code = 404
        THEN APIErrorOf("OpenF1NotFoundError", status_code, response_body, request_url, None)
    ELSE IF status_code = 429
        THEN APIErrorOf("OpenF1RateLimitError", status_code, response_body,
                        request_url, retry_after)
    ELSE IF 500 <= status_code /\ status_code < 600
        THEN APIErrorOf("OpenF1ServerError", status_code, response_body, request_url, None)
    ELSE APIErrorOf("OpenF1APIError", status_code, response_body, request_url, None)

-----------------------------------------------------------------------------
(* config.py: the configuration values the transport reads                  *)

\* ClientConfig.retry_on_status, the default tuple.
retry_on_status == {500, 502, 503, 504}

\* ClientConfig.timeout: _validate accepts an int, a float or a (connect, read) pair.
TimeoutShapes ==
    { [shape |-> "int",   connect |-> 30, read |-> 30],
      [shape |-> "float", connect |-> 30, read |-> 30],
      [shape |-> "pair",  connect |-> 5,  read |-> 30] }

\* The largest ClientConfig.max_retries the model configures.
MaxRetries == 2

-----------------------------------------------------------------------------
(* http_client.py: SyncHTTPClient                                           *)

Methods == {"GET", "POST", "PUT"}
Paths == {"sessions", "/laps"}
\* What the body of a response is: a JSON list, a JSON object, a JSON string, or
\* text that is not JSON (CSV, HTML, an empty body).
Bodies == {"list", "dict", "str", "nonjson"}
StatusCodes == {199, 200, 204, 299, 300, 400, 401, 403, 404, 413, 422, 429, 499,
                500, 502, 503, 504, 599, 600}

\* A Retry-After header: absent, an integer number of seconds, or an HTTP date.
RetryAfterInt == 60
RetryAfterHeaders ==
    { [form |-> "absent", seconds |-> None],
      [form |-> "int",    seconds |-> Some(RetryAfterInt)],
      [form |-> "date",   seconds |-> None] }

\* What one attempt on the wire can end in.
Responses ==
    [type : {"response"}, status : StatusCodes, retry_after : RetryAfterHeaders,
     body : Bodies]
WireErrors ==
    [type : {"connect_timeout", "read_timeout", "connection_refused"},
     status : {0}, retry_after : {[form |-> "absent", seconds |-> None]},
     body : {"nonjson"}]
AttemptOutcomes == Responses \cup WireErrors

\* _build_url: base URL without its trailing slash, "/", path without leading slashes.
_build_url(path) ==
    IF path = "/laps" THEN "https://api.openf1.org/v1/laps"
    ELSE "https://api.openf1.org/v1/sessions"

\* Retry(allowed_methods=["GET", "POST"]).
allowed_methods == {"GET", "POST"}

\* urllib3's Retry.RETRY_AFTER_STATUS_CODES, in force because the Retry is built
\* with the default respect_retry_after_header=True.
RETRY_AFTER_STATUS_CODES == {413, 429, 503}

\* Retry.is_retry(method, status_code, has_retry_after) for the configured Retry.
is_retry(method, total, status_code, has_retry_after) ==
    IF method \notin allowed_methods THEN FALSE
    ELSE IF status_code \in retry_on_status THEN TRUE
    ELSE total > 0 /\ has_retry_after /\ status_code \in RETRY_AFTER_STATUS_CODES

\* One pass of urllib3's urlopen under Retry(total, status_forcelist=retry_on_status,
\* allowed_methods, raise_on_status=False), with requests' HTTPAdapter.send naming
\* the exception: retry, return the response, or raise.
RetryStep(method, total, out) ==
    IF out.type = "response" THEN
        IF is_retry(method, total, out.status, out.retry_after.form # "absent") THEN
            IF total - 1 < 0 THEN [act |-> "return", exc |-> "none"]
            ELSE [act |-> "retry", exc |-> "none"]
        ELSE [act |-> "return", exc |-> "none"]
    ELSE IF out.type = "read_timeout" /\ method \notin allowed_methods THEN
        \* Retry.increment re-raises a read error of a method it does not retry.
        [act |-> "raise", exc |-> "ReadTimeout"]
    ELSE IF total - 1 < 0 THEN
        \* MaxRetryError: ConnectTimeout for a connect timeout, ConnectionError
        \* for every other reason (a read timeout included).
        [act |-> "raise",
         exc |-> IF out.type = "connect_timeout" THEN "ConnectTimeout"
                 ELSE "ConnectionError"]
    ELSE [act |-> "retry", exc |-> "none"]

\* request's except clauses: the OpenF1 error for a requests exception.
TransportOutcome(exc, timeout) ==
    IF exc \in {"ConnectTimeout", "ReadTimeout"} THEN
        IF timeout.shape = "float"
            THEN Outcome("OpenF1TimeoutError", None, None, None, None, Some(timeout.read))
        ELSE IF timeout.shape = "pair"
            THEN Outcome("OpenF1TimeoutError", None, None, None, None, Some(timeout.read))
        \* request_timeout[1] on an int: TypeError raised inside the handler.
        ELSE Outcome("TypeError", None, None, None, None, None)
    ELSE Outcome("OpenF1TransportError", None, None, None, None, None)

\* request's handling of the final response: parse Retry-After, raise_for_status,
\* return the response.
ResponseOutcome(out, url) ==
    IF out.retry_after.form = "date"
        \* int(retry_after) on a non-integer string; no except clause catches it.
        THEN Outcome("ValueError", None, None, None, None, None)
    ELSE LET err == raise_for_status(out.status, out.body, url, out.retry_after.seconds)
         IN IF err = NoError
                THEN Outcome("response", Some(out.status), Some(out.body), Some(url),
                             None, None)
            ELSE err

IdleReq ==
    [state |-> "idle", method |-> "GET", path |-> "sessions",
     timeout |-> CHOOSE t \in TimeoutShapes : t.shape = "float",
     max_retries |-> 0, total |-> 0, attempts |-> 0,
     prev |-> None, all5xx |-> TRUE]

\* SyncHTTPClient.request is called: the session's Retry starts at total=max_retries.
BeginRequest(method, path, timeout, max_retries) ==
    /\ req.state # "sending"
    /\ req' = [state |-> "sending", method |-> method, path |-> path,
               timeout |-> timeout, max_retries |-> max_retries,
               total |-> max_retries, attempts |-> 0, prev |-> None,
               all5xx |-> TRUE]
    /\ reqResult' = NoError
    /\ UNCHANGED <<now, token, created, client, sessions, last>>
    /\ UNCHANGED <<queryVars, configVars, authVars, builderVars, stepVars>>

\* One attempt on the wire and what urllib3, requests and request make of it.
Attempt(out) ==
    /\ req.state = "sending"
    /\ LET step == RetryStep(req.method, req.total, out)
           seen == [req EXCEPT !.attempts = @ + 1,
                               !.prev = Some(out),
                               !.all5xx = @ /\ out.type = "response"
                                            /\ out.status \in retry_on_status]
       IN IF step.act = "retry"
              THEN /\ req' = [seen EXCEPT !.total = @ - 1]
                   /\ UNCHANGED reqResult
          ELSE /\ req' = [seen EXCEPT !.state = "done"]
               /\ reqResult' =
                     IF step.act = "return"
                         THEN ResponseOutcome(out, _build_url(req.path))
                     ELSE TransportOutcome(step.exc, req.timeout)
    /\ UNCHANGED <<now, token, created, client, sessions, last>>
    /\ UNCHANGED <<queryVars, configVars, authVars, builderVars, stepVars>>

InitHTTP ==
    /\ req = IdleReq
    /\ reqResult = NoError
    /\ now = 0
    /\ token = None
    /\ created = 0
    /\ client = NoClient
    /\ sessions = <<>>
    /\ last = NoLast
    /\ query = None
    /\ fetched = None
    /\ configs = NoConfigs
    /\ headers = <<>>
    /\ provider = None
    /\ authOp = None
    /\ builder = None
    /\ dicts = <<>>
    /\ grant = None
    /\ swap = None

NextHTTP ==
    \/ \E m \in Methods, p \in Paths, t \in TimeoutShapes, r \in 0..MaxRetries :
           BeginRequest(m, p, t, r)
    \/ \E out \in AttemptOutcomes : Attempt(out)

SpecHTTP == InitHTTP /\ [][NextHTTP]_vars

-----------------------------------------------------------------------------
(* auth.py: TokenInfo                                                       *)

\* Token-endpoint JSON bodies: access_token and expires_in, each possibly missing.
AccessTokens == {"tok1", "tok2"}
Lifetimes == {None, Some(0), Some(60), Some(120), Some(3600)}

\* TokenInfo.from_response at time t: an OpenF1AuthError with status code 0 when
\* access_token is missing or empty, else the TokenInfo with expires_at = t + expires_in.
from_response(data, t) ==
    IF data.access_token = None \/ data.access_token = Some("")
        THEN [err |-> Outcome("OpenF1AuthError", Some(0), Some("payload"), None, None, None),
              info |-> None]
    ELSE [err |-> NoError,
          info |-> Some([access_token |-> data.access_token[1],
                         expires_in |-> data.expires_in,
                         expires_at |-> IF data.expires_in = None THEN None
                                        ELSE Some(t + data.expires_in[1])])]

is_expired_strict(info, t) ==
    IF info.expires_at = None THEN FALSE
    ELSE t > info.expires_at[1] - 60

\* TokenInfo.is_expired at time t.
is_expired(info, t) ==
    IF info.expires_at = None THEN FALSE
    ELSE t >= info.expires_at[1] - 60

\* Bounds of SpecToken: the latest construction instant and the end of the clock.
MaxStart == 2
MaxClock == 3700
ClockSteps == {1, 540, 3000}

\* A TokenInfo is built from a token response.
TokenFromResponse(data) ==
    /\ token = None
    /\ now <= MaxStart
    /\ from_response(data, now).err = NoError
    /\ token' = from_response(data, now).info
    /\ created' = now
    /\ UNCHANGED <<req, reqResult, now, client, sessions, last>>
    /\ UNCHANGED <<queryVars, configVars, authVars, builderVars, stepVars>>

\* Time passes.
ClockAdvance(d) ==
    /\ now + d <= MaxClock
    /\ now' = now + d
    /\ UNCHANGED <<req, reqResult, token, created, client, sessions, last>>
    /\ UNCHANGED <<queryVars, configVars, authVars, builderVars, stepVars>>

InitToken ==
    /\ req = IdleReq
    /\ reqResult = NoError
    /\ now = 0
    /\ token = None
    /\ created = 0
    /\ client = NoClient
    /\ sessions = <<>>
    /\ last = NoLast
    /\ query = None
    /\ fetched = None
    /\ configs = NoConfigs
    /\ headers = <<>>
    /\ provider = None
    /\ authOp = None
    /\ builder = None
    /\ dicts = <<>>
    /\ grant = None
    /\ swap = None

NextToken ==
    \/ \E a \in AccessTokens, e \in Lifetimes :
           TokenFromResponse([access_token |-> Some(a), expires_in |-> e])
    \/ \E d \in ClockSteps : ClockAdvance(d)

SpecToken == InitToken /\ [][NextToken]_vars

-----------------------------------------------------------------------------
(* http_client.py: OpenF1Transport.post_form; auth.py: the providers        *)

\* Lifetimes the token endpoint returns in the client life cycle.
ClientLifetimes == {None, Some(0), Some(60), Some(120)}
TokenErrorStatuses == {400, 401, 403, 404, 429, 500}
TOKEN_URL == "https://api.openf1.org/token"

\* What the token endpoint can answer to one exchange: a transport failure, an
\* error status, or a 2xx whose body is a JSON object, a JSON list or not JSON.
ExchangeOutcome(wire, status, body, access_token, expires_in) ==
    [wire |-> wire, status |-> status, body |-> body,
     data |-> [access_token |-> access_token, expires_in |-> expires_in]]

GoodExchanges ==
    { ExchangeOutcome("ok", 200, "dict", Some(a), e) :
          a \in AccessTokens, e \in ClientLifetimes }
BadExchanges ==
    { ExchangeOutcome(w, 0, "none", None, None) : w \in {"ConnectionError", "Timeout"} }
    \cup { ExchangeOutcome("ok", s, "dict", None, None) : s \in TokenErrorStatuses }
    \cup { ExchangeOutcome("ok", 200, b, None, None) : b \in {"nonjson", "list", "dict"} }
    \cup { ExchangeOutcome("ok", 200, "dict", Some(""), Some(60)) }
ExchangeOutcomes == GoodExchanges \cup BadExchanges

\* A variant of post_form that does not look at the status code.
post_form_unchecked(out, url) ==
    IF out.wire # "ok"
        THEN [err |-> Outcome(out.wire, None, None, None, None, None), data |-> out.data]
    ELSE IF out.body = "nonjson"
        THEN [err |-> Outcome("JSONDecodeError", None, None, None, None, None),
              data |-> out.data]
    ELSE [err |-> NoError, data |-> out.data]

\* post_form: session.post, raise_for_status on the response text, response.json().
\* The requests exception, the API error and the JSON error are raised as they are.
post_form(out, url) ==
    IF out.wire # "ok"
        THEN [err |-> Outcome(out.wire, None, None, None, None, None), data |-> out.data]
    ELSE LET e == raise_for_status(out.status, "text", url, None) IN
         IF e # NoError THEN [err |-> e, data |-> out.data]
         ELSE IF out.body = "nonjson"
             THEN [err |-> Outcome("JSONDecodeError", None, None, None, None, None),
                   data |-> out.data]
         ELSE [err |-> NoError, data |-> out.data]

AuthError0 == Outcome("OpenF1AuthError", Some(0), None, None, None, None)

authenticate_unwrapped(info, out, t) ==
    LET pf == post_form(out, TOKEN_URL) IN
    IF pf.err # NoError THEN [err |-> pf.err, info |-> info]
    ELSE IF out.body = "list"
        THEN [err |-> Outcome("AttributeError", None, None, None, None, None),
              info |-> info]
    ELSE LET fr == from_response(pf.data, t) IN
         IF fr.err # NoError THEN [err |-> fr.err, info |-> info]
         ELSE [err |-> NoError, info |-> fr.info]

\* PasswordAuthProvider.authenticate with cached token `info` at time t: the error
\* raised (NoError on success) and the cached token afterwards. An OpenF1AuthError
\* is re-raised as it is; any other exception becomes an OpenF1AuthError with
\* status code 0.
authenticate(info, out, t) ==
    LET pf == post_form(out, TOKEN_URL) IN
    IF pf.err # NoError
        THEN [err |-> IF pf.err.kind = "OpenF1AuthError" THEN pf.err ELSE AuthError0,
              info |-> info]
    ELSE IF out.body = "list"
        \* data.get on a list: AttributeError, wrapped.
        THEN [err |-> AuthError0, info |-> info]
    ELSE LET fr == from_response(pf.data, t) IN
         IF fr.err # NoError THEN [err |-> fr.err, info |-> info]
         ELSE [err |-> NoError, info |-> fr.info]

\* PasswordAuthProvider.get_token: `raised` is the exception that escapes ("none"
\* when it returns), `value` the returned token or None.
get_token(info, out, t) ==
    IF info = None \/ is_expired(info[1], t) THEN
        LET a == authenticate(info, out, t) IN
        IF a.err.kind = "OpenF1AuthError"
            THEN [raised |-> "none", value |-> None, info |-> a.info,
                  exchanged |-> TRUE, failed |-> TRUE]
        ELSE IF a.err # NoError
            THEN [raised |-> a.err.kind, value |-> None, info |-> a.info,
                  exchanged |-> TRUE, failed |-> TRUE]
        ELSE [raised |-> "none",
              value |-> IF a.info # None THEN Some(a.info[1].access_token) ELSE None,
              info |-> a.info, exchanged |-> TRUE, failed |-> FALSE]
    ELSE [raised |-> "none", value |-> Some(info[1].access_token), info |-> info,
          exchanged |-> FALSE, failed |-> FALSE]

\* PasswordAuthProvider.is_authenticated.
is_authenticated(info, t) == info # None /\ ~is_expired(info[1], t)

-----------------------------------------------------------------------------
(* client.py: OpenF1Client                                                  *)

\* How the client is configured: no authentication, a pre-existing access token,
\* username and password, both a token and credentials, or username="" and
\* password="" (which ClientConfig._validate accepts: neither is None).
ClientKinds == {"anonymous", "token", "password", "both", "empty"}
STATIC_TOKEN == "static"

\* Bounds of Spec: the clock runs to MaxTime in steps of TickStep seconds.
MaxTime == 180
TickStep == 60

with_token_dropped(config_token, access_token) == config_token

\* ClientConfig.with_token: the access_token of the new configuration.
with_token(config_token, access_token) == Some(access_token)

\* SyncHTTPClient._get_auth_header for a configuration's access_token.
_get_auth_header(access_token) ==
    IF access_token # None /\ access_token # Some("")
        THEN Some([scheme |-> "Bearer", token |-> access_token[1]])
    ELSE None

\* OpenF1Client._create_auth_manager: the provider chosen for a configuration, or
\* the OpenF1ConfigError PasswordAuthProvider(...) raises for an empty username
\* or password.
_create_auth_manager(config_token, has_credentials, empty_credentials) ==
    IF config_token # None /\ config_token # Some("") THEN "token"
    ELSE IF has_credentials
        THEN IF empty_credentials THEN "OpenF1ConfigError" ELSE "password"
    ELSE "none"

_setup_authenticated_client_raising(c, ss, out, t) ==
    IF c.has_credentials /\ c.config_token = None THEN
        LET a == authenticate(c.token_info, out, t) IN
        IF a.err = NoError THEN
            LET tok == with_token(c.config_token, a.info[1].access_token) IN
            [client |-> [c EXCEPT !.token_info = a.info, !.config_token = tok,
                                  !.http = Len(ss) + 1],
             sessions |-> Append([ss EXCEPT ![c.http].open = FALSE],
                                 [token |-> tok, open |-> TRUE]),
             raised |-> "none", exchanged |-> TRUE, failed |-> FALSE]
        ELSE [client |-> c, sessions |-> ss, raised |-> a.err.kind,
              exchanged |-> TRUE, failed |-> TRUE]
    ELSE [client |-> c, sessions |-> ss, raised |-> "none",
          exchanged |-> FALSE, failed |-> FALSE]

\* OpenF1Client._setup_authenticated_client: with credentials and no token in the
\* configuration, authenticate; on success replace the configuration by one with
\* the token, close the HTTP client and build a new HTTP client and transport
\* from the new configuration; any exception is logged and swallowed.
_setup_authenticated_client(c, ss, out, t) ==
    IF c.has_credentials /\ c.config_token = None THEN
        LET a == authenticate(c.token_info, out, t) IN
        IF a.err = NoError THEN
            LET tok == with_token(c.config_token, a.info[1].access_token) IN
            [client |-> [c EXCEPT !.token_info = a.info, !.config_token = tok,
                                  !.http = Len(ss) + 1],
             sessions |-> Append([ss EXCEPT ![c.http].open = FALSE],
                                 [token |-> tok, open |-> TRUE]),
             raised |-> "none", exchanged |-> TRUE, failed |-> FALSE]
        ELSE [client |-> c, sessions |-> ss, raised |-> "none",
              exchanged |-> TRUE, failed |-> TRUE]
    ELSE [client |-> c, sessions |-> ss, raised |-> "none",
          exchanged |-> FALSE, failed |-> FALSE]

\* OpenF1Client.is_authenticated: the provider's is_authenticated.
ClientIsAuthenticated(c, t) ==
    IF c.provider = "password" THEN is_authenticated(c.token_info, t)
    ELSE c.provider = "token"

\* OpenF1Client.__init__: configuration, HTTP client and transport, provider, and
\* with credentials the set-up of the authenticated client.
Construct(kind, out) ==
    /\ client.phase = "new"
    /\ LET creds == kind \in {"password", "both", "empty"}
           ctok == IF kind \in {"token", "both"} THEN Some(STATIC_TOKEN) ELSE None
           prov == _create_auth_manager(ctok, creds, kind = "empty")
           c0 == [phase |-> "ready", kind |-> kind, has_credentials |-> creds,
                  config_token |-> ctok,
                  provider |-> IF prov = "OpenF1ConfigError" THEN "none" ELSE prov,
                  token_info |-> None,
                  static_token |-> IF prov = "token" THEN STATIC_TOKEN ELSE "",
                  http |-> 1, provider_http |-> IF prov = "password" THEN 1 ELSE 0,
                  endpoints |-> [a \in Accessors |-> 0], eager |-> None, explicit |-> None]
           ss0 == << [token |-> ctok, open |-> TRUE] >>
           r == IF prov = "OpenF1ConfigError"
                    \* raised by _create_auth_manager, after SyncHTTPClient(...)
                    THEN [client |-> c0, sessions |-> ss0, raised |-> prov,
                          exchanged |-> FALSE, failed |-> FALSE]
                ELSE IF creds THEN _setup_authenticated_client(c0, ss0, out, now)
                ELSE [client |-> c0, sessions |-> ss0, raised |-> "none",
                      exchanged |-> FALSE, failed |-> FALSE]
       IN /\ client' =
                 IF r.raised # "none" THEN [r.client EXCEPT !.phase = "failed"]
                 ELSE [r.client EXCEPT
                          !.eager = IF r.exchanged /\ ~r.failed
                                        THEN Some(out.data.access_token[1])
                                    ELSE None]
          /\ sessions' = r.sessions
          /\ last' = Last("construct", r.raised, None, None,
                          IF r.exchanged THEN Some(out) ELSE None,
                          IF r.exchanged THEN 1 ELSE 0, FALSE)
    /\ UNCHANGED <<req, reqResult, now, token, created>>
    /\ UNCHANGED <<queryVars, configVars, authVars, builderVars, stepVars>>

\* OpenF1Client.authenticate: the explicit call.
ClientAuthenticate(out) ==
    /\ client.phase = "ready"
    /\ LET r == _setup_authenticated_client(client, sessions, out, now) IN
       /\ client' = [r.client EXCEPT
                        !.explicit = IF r.exchanged /\ ~r.failed
                                         THEN Some(out.data.access_token[1])
                                     ELSE @]
       /\ sessions' = r.sessions
       /\ last' = Last("authenticate", r.raised, None, None,
                       IF r.exchanged THEN Some(out) ELSE None,
                       IF r.exchanged THEN client.provider_http ELSE 0,
                       ClientIsAuthenticated(client, now))
    /\ UNCHANGED <<req, reqResult, now, token, created>>
    /\ UNCHANGED <<queryVars, configVars, authVars, builderVars, stepVars>>

\* A data request through an endpoint accessor (client.sessions.list(...)): the
\* accessor is created on first use with the transport the client holds then and
\* kept; the request goes out with that transport's authorization header.
DataRequest(acc) ==
    /\ client.phase = "ready"
    /\ LET ep == IF client.endpoints[acc] = 0 THEN client.http
                 ELSE client.endpoints[acc]
       IN /\ client' = [client EXCEPT !.endpoints[acc] = ep]
          /\ last' = Last("data_request", "none", None,
                          _get_auth_header(sessions[ep].token), None, ep,
                          ClientIsAuthenticated(client, now))
    /\ UNCHANGED <<req, reqResult, now, token, created, sessions>>
    /\ UNCHANGED <<queryVars, configVars, authVars, builderVars, stepVars>>

\* AuthManager.get_token on the client's provider.
ProviderGetToken(out) ==
    /\ client.phase = "ready"
    /\ IF client.provider = "password" THEN
           LET g == get_token(client.token_info, out, now) IN
           /\ client' = [client EXCEPT !.token_info = g.info]
           /\ last' = Last("get_token", g.raised, g.value, None,
                           IF g.exchanged THEN Some(out) ELSE None,
                           IF g.exchanged THEN client.provider_http ELSE 0,
                           ClientIsAuthenticated(client, now))
       ELSE /\ client' = client
            /\ last' = Last("get_token", "none",
                            IF client.provider = "token"
                                THEN Some(client.static_token) ELSE None,
                            None, None, 0,
                            ClientIsAuthenticated(client, now))
    /\ UNCHANGED <<req, reqResult, now, token, created, sessions>>
    /\ UNCHANGED <<queryVars, configVars, authVars, builderVars, stepVars>>

\* Time passes.
Tick ==
    /\ client.phase = "ready"
    /\ now + TickStep <= MaxTime
    /\ now' = now + TickStep
    /\ last' = Last("tick", "none", None, None, None, 0, FALSE)
    /\ UNCHANGED <<req, reqResult, token, created, client, sessions>>
    /\ UNCHANGED <<queryVars, configVars, authVars, builderVars, stepVars>>

\* OpenF1Client.close: closes the transport the client holds.
Close ==
    /\ client.phase = "ready"
    /\ client' = [client EXCEPT !.phase = "closed"]
    /\ sessions' = [sessions EXCEPT ![client.http].open = FALSE]
    /\ last' = Last("close", "none", None, None, None, 0, FALSE)
    /\ UNCHANGED <<req, reqResult, now, token, created>>
    /\ UNCHANGED <<queryVars, configVars, authVars, builderVars, stepVars>>

Init ==
    /\ req = IdleReq
    /\ reqResult = NoError
    /\ now = 0
    /\ token = None
    /\ created = 0
    /\ client = NoClient
    /\ sessions = <<>>
    /\ last = NoLast
    /\ query = None
    /\ fetched = None
    /\ configs = NoConfigs
    /\ headers = <<>>
    /\ provider = None
    /\ authOp = None
    /\ builder = None
    /\ dicts = <<>>
    /\ grant = None
    /\ swap = None

Next ==
    \/ \E k \in ClientKinds, out \in ExchangeOutcomes : Construct(k, out)
    \/ \E out \in ExchangeOutcomes : ClientAuthenticate(out)
    \/ \E acc \in Accessors : DataRequest(acc)
    \/ \E out \in ExchangeOutcomes : ProviderGetToken(out)
    \/ Tick
    \/ Close

Spec == Init /\ [][Next]_vars

-----------------------------------------------------------------------------
(* Properties of the transport (SpecHTTP)                                   *)

\* The request call has finished and its last attempt got an HTTP response.
FinishedWithResponse ==
    req.state = "done" /\ req.prev # None /\ req.prev[1].type = "response"

\* The error class the status-to-error table names for a status code.
ExpectedKind(s) ==
    IF s \in 200..299 THEN "response"
    ELSE IF s = 401 \/ s = 403 THEN "OpenF1AuthError"
    ELSE IF s = 404 THEN "OpenF1NotFoundError"
    ELSE IF s = 429 THEN "OpenF1RateLimitError"
    ELSE IF s \in 500..599 THEN "OpenF1ServerError"
    ELSE "OpenF1APIError"

C8_ResentOnlyOnRetryStatus ==
    (req.state = "sending" /\ req.attempts >= 1) =>
        /\ req.method \in {"GET", "POST"}
        /\ req.prev[1].type = "response"
        /\ req.prev[1].status \in retry_on_status

\* C9 (as claimed): a request makes at most max_retries + 1 attempts, exactly one
\* when max_retries = 0, and when every attempt returned a retryable 5xx the
\* caller gets a ServerError carrying the last response's status code.
C9_BoundedAttemptsThenServerError ==
    /\ req.attempts <= req.max_retries + 1
    /\ (req.state = "done" /\ req.max_retries = 0) => req.attempts = 1
    /\ (req.state = "done" /\ req.all5xx) =>
           /\ reqResult.kind = "OpenF1ServerError"
           /\ reqResult.status_code = Some(req.prev[1].status)

\* C10 (as claimed): a request whose last attempt timed out raises
\* OpenF1TimeoutError whose timeout is the configured duration that was exceeded,
\* whatever the shape of the configured timeout.
C10_TimeoutErrorCarriesDuration ==
    (req.state = "done" /\ req.prev # None
        /\ req.prev[1].type \in {"connect_timeout", "read_timeout"}) =>
        /\ reqResult.kind = "OpenF1TimeoutError"
        /\ reqResult.status_code = None
        /\ reqResult.timeout =
              Some(IF req.prev[1].type = "connect_timeout"
                       THEN req.timeout.connect ELSE req.timeout.read)

-----------------------------------------------------------------------------
(* Properties of TokenInfo (SpecToken)                                      *)

HasLifetime3600 == token # None /\ token[1].expires_in = Some(3600)

\* C4 (as claimed): a TokenInfo built with expires_in=3600 at time T is not
\* expired at T+3000 and at exactly T+3540, and is expired from T+3541 on.
C4_NotExpiredAt3540 ==
    HasLifetime3600 =>
        /\ now = created + 3000 => ~is_expired(token[1], now)
        /\ now = created + 3540 => ~is_expired(token[1], now)
        /\ now >= created + 3541 => is_expired(token[1], now)

\* C4 (amended): a TokenInfo built with expires_in=3600 at time T is not expired
\* at any time before T+3540 (T+3000 included) and is expired at exactly T+3540
\* and at every later time (T+3541 included).
C4_ExpiredFrom3540 ==
    HasLifetime3600 =>
        /\ now < created + 3540 => ~is_expired(token[1], now)
        /\ now >= created + 3540 => is_expired(token[1], now)

C4_Witness ==
    HasLifetime3600 /\ now = created + 3540 /\ is_expired(token[1], now)

-----------------------------------------------------------------------------
(* Properties of the client life cycle (Spec)                               *)

\* The last operation made a token exchange and the token endpoint failed it.
ExchangeFailed == last.exchange # None /\ last.exchange[1] \in BadExchanges

Bearer(tok) == Some([scheme |-> "Bearer", token |-> tok])

\* C1: password-grant get_token never raises; whenever the token exchange it makes
\* fails (error status, transport failure, non-JSON body, JSON without
\* access_token) it returns None, and a token it returns is the cached one.
C1_GetTokenNeverRaises ==
    (last.op = "get_token" /\ client.provider = "password") =>
        /\ last.raised = "none"
        /\ ExchangeFailed => last.value = None
        /\ last.value # None =>
               /\ client.token_info # None
               /\ last.value = Some(client.token_info[1].access_token)

C1_Witness ==
    /\ last.op = "get_token"
    /\ client.provider = "password"
    /\ last.exchange # None
    /\ last.exchange[1].wire = "ConnectionError"
    /\ last.raised = "none"
    /\ last.value = None

\* C2: in a client configured with username and password and no access token
\* whose construction-time exchange returned tok, every data request carries
\* Authorization: Bearer tok.
C2_EagerTokenOnEveryRequest ==
    (last.op = "data_request" /\ client.kind = "password" /\ client.eager # None) =>
        last.header = Bearer(client.eager[1])

C2_Witness ==
    /\ last.op = "data_request"
    /\ client.kind = "password"
    /\ client.eager = Some("tok1")
    /\ last.header = Bearer("tok1")
    /\ now > 0

\* C5: construction with username and password whose token exchange fails does
\* not raise: the client is ready, is_authenticated is False, and while no later
\* authentication succeeds its data requests go out without Authorization header.
C5_ConstructSwallowsAuthFailure ==
    /\ (last.op = "construct" /\ client.kind = "password" /\ ExchangeFailed) =>
           /\ last.raised = "none"
           /\ client.phase = "ready"
           /\ ~ClientIsAuthenticated(client, now)
    /\ (last.op = "data_request" /\ client.kind = "password"
           /\ client.eager = None /\ client.explicit = None) =>
           /\ last.raised = "none"
           /\ last.header = None

C5_Witness ==
    /\ last.op = "data_request"
    /\ client.kind = "password"
    /\ client.eager = None
    /\ client.explicit = None
    /\ client.phase = "ready"
    /\ last.header = None

\* C6 (as claimed): an explicit OpenF1Client.authenticate() whose token exchange
\* fails raises OpenF1AuthError to its caller.
C6_ExplicitAuthenticateRaises ==
    (last.op = "authenticate" /\ ExchangeFailed) => last.raised = "OpenF1AuthError"

\* C7 (as claimed): a data request of a username/password client issued while
\* the client holds no unexpired token makes a token exchange first, and no data
\* request carries an expired token.
C7_AuthenticatesWhenNeeded ==
    (last.op = "data_request" /\ client.kind = "password") =>
        /\ ~last.held_valid => last.exchange # None
        /\ (last.header # None /\ client.token_info # None
               /\ last.header[1].token = client.token_info[1].access_token) =>
               ~is_expired(client.token_info[1], now)

-----------------------------------------------------------------------------
(* utils.py: build_query_params                                             *)

\* A scalar filter value: an int, a str, or a float given in tenths.
IntVal(n) == [type |-> "int", n |-> n, s |-> ""]
StrVal(s) == [type |-> "str", n |-> 0, s |-> s]
FloatVal(tenths) == [type |-> "float", n |-> tenths, s |-> ""]

\* Python's str() on a scalar: decimal digits for an int, the string itself for a
\* str, digits "." digit for a float.
str(value) ==
    IF value.type = "int" THEN ToString(value.n)
    ELSE IF value.type = "float"
        THEN ToString(value.n \div 10) \o "." \o ToString(value.n % 10)
    ELSE value.s

\* FilterOperator.
Operators == {">=", "<=", ">", "<", "="}

\* Field names of the API's resources. None of them is "csv" and none ends in an
\* operator symbol, so distinct (field, operator) pairs give distinct parameter names.
Fields == {"speed", "date"}
Scalars == {IntVal(0), IntVal(315), StrVal(""), StrVal("latest"), FloatVal(5)}
Operands == {IntVal(315), StrVal("T1")}

\* The largest number of operators in one operator map.
MaxOps == 2

\* A value of the filter dict: None, a scalar, or a dict from operator to operand.
NoOps == [o \in {} |-> IntVal(0)]
NoneValue == [kind |-> "none", scalar |-> IntVal(0), ops |-> NoOps]
ScalarValue(v) == [kind |-> "scalar", scalar |-> v, ops |-> NoOps]
OpsValue(m) == [kind |-> "ops", scalar |-> IntVal(0), ops |-> m]

OperatorMaps ==
    UNION { [ops -> Operands] : ops \in {S \in SUBSET Operators : Cardinality(S) <= MaxOps} }
FilterValues ==
    {NoneValue} \cup {ScalarValue(v) : v \in Scalars} \cup {OpsValue(m) : m \in OperatorMaps}
FilterMaps == UNION { [S -> FilterValues] : S \in SUBSET Fields }

\* The format hint: None, "json" or "csv".
Formats == {None, Some("json"), Some("csv")}

\* A variant of the skip test that drops every falsy value (`if not value`).
skipped_falsy(value) ==
    \/ value.kind = "none"
    \/ value.kind = "scalar" /\ value.scalar \in {IntVal(0), StrVal(""), FloatVal(0)}
    \/ value.kind = "ops" /\ DOMAIN value.ops = {}

\* `if value is None: continue`.
skipped(value) == value.kind = "none"

\* A variant that emits every operator under the bare field name.
param_name_bare(key, operator) == key

\* The parameter name of one operator of a field: the key for "=", else key + operator.
param_name(key, operator) == IF operator = "=" THEN key ELSE key \o operator

\* A variant that adds the csv parameter for every format hint that is given.
format_params_any(format) == IF format # None THEN {<<"csv", "true">>} ELSE {}

\* `if format == "csv": params["csv"] = "true"`.
format_params(format) == IF format = Some("csv") THEN {<<"csv", "true">>} ELSE {}

\* The assignments params[name] = text that the loop over filters.items() makes.
filter_params(filters) ==
    LET kept == {k \in DOMAIN filters : ~skipped(filters[k])} IN
    { <<k, str(filters[k].scalar)>> : k \in {f \in kept : filters[f].kind = "scalar"} }
    \cup UNION { { <<param_name(k, o), str(filters[k].ops[o])>> : o \in DOMAIN filters[k].ops }
                 : k \in {f \in kept : filters[f].kind = "ops"} }

\* build_query_params: the dict after the loop and the format assignment, which is
\* made last and so wins over a filter parameter of the same name.
build_query_params(filters, format) ==
    LET fp == filter_params(filters)
        last_ == format_params(format)
        names == {w[1] : w \in fp \cup last_}
    IN [n \in names |->
            IF \E w \in last_ : w[1] = n
                THEN (CHOOSE w \in last_ : w[1] = n)[2]
            ELSE (CHOOSE w \in fp : w[1] = n)[2]]

\* build_query_params is called; it is a pure function, so one call per behaviour
\* covers every call.
BuildQuery(filters, format) ==
    /\ query = None
    /\ query' = Some([filters |-> filters, format |-> format,
                      params |-> build_query_params(filters, format)])
    /\ UNCHANGED <<httpVars, tokenVars, clientVars, fetched, configVars, authVars,
                   builderVars, stepVars>>

InitQuery ==
    /\ req = IdleReq
    /\ reqResult = NoError
    /\ now = 0
    /\ token = None
    /\ created = 0
    /\ client = NoClient
    /\ sessions = <<>>
    /\ last = NoLast
    /\ query = None
    /\ fetched = None
    /\ configs = NoConfigs
    /\ headers = <<>>
    /\ provider = None
    /\ authOp = None
    /\ builder = None
    /\ dicts = <<>>
    /\ grant = None
    /\ swap = None

NextQuery == \E f \in FilterMaps, fmt \in Formats : BuildQuery(f, fmt)

SpecQuery == InitQuery /\ [][NextQuery]_vars

\* C14: a field whose value is None is not a parameter of the result, and a field
\* with a scalar value, 0 and "" included, is a parameter under its own name whose
\* value is the scalar's string.
C14_NoneOmittedScalarsKept ==
    query # None =>
        LET q == query[1] IN
        \A k \in DOMAIN q.filters :
            /\ q.filters[k].kind = "none" => k \notin DOMAIN q.params
            /\ q.filters[k].kind = "scalar" =>
                  /\ k \in DOMAIN q.params
                  /\ q.params[k] = str(q.filters[k].scalar)
                  /\ q.filters[k].scalar = IntVal(0) => q.params[k] = "0"
                  /\ q.filters[k].scalar = StrVal("") => q.params[k] = ""

C14_Witness ==
    /\ query # None
    /\ DOMAIN query[1].filters = {"speed", "date"}
    /\ query[1].filters["date"].kind = "none"
    /\ query[1].filters["speed"] = ScalarValue(IntVal(0))
    /\ query[1].params = [n \in {"speed"} |-> "0"]

\* The number of (field, operator) pairs of the operator maps among the given fields.
RECURSIVE OperatorCount(_, _)
OperatorCount(filters, fields) ==
    IF fields = {} THEN 0
    ELSE LET k == CHOOSE f \in fields : TRUE IN
         (IF filters[k].kind = "ops" THEN Cardinality(DOMAIN filters[k].ops) ELSE 0)
         + OperatorCount(filters, fields \ {k})

\* C15: each scalar field and each (field, operator) pair is one parameter of the
\* result: "=" under the field name, any other operator under the field name
\* followed by the operator symbol, with the operand's string; the number of filter
\* parameters is the number of scalar fields plus the number of operators.
C15_OneParameterPerOperator ==
    query # None =>
        LET q == query[1]
            scalars == {k \in DOMAIN q.filters : q.filters[k].kind = "scalar"}
        IN /\ \A k \in DOMAIN q.filters :
                  q.filters[k].kind = "ops" =>
                      \A o \in DOMAIN q.filters[k].ops :
                          LET name == IF o = "=" THEN k ELSE k \o o IN
                          /\ name \in DOMAIN q.params
                          /\ q.params[name] = str(q.filters[k].ops[o])
           /\ Cardinality(DOMAIN q.params \ {"csv"})
                  = Cardinality(scalars) + OperatorCount(q.filters, DOMAIN q.filters)

C15_Witness ==
    /\ query # None
    /\ DOMAIN query[1].filters = {"speed", "date"}
    /\ query[1].filters["speed"].kind = "scalar"
    /\ query[1].filters["date"].kind = "ops"
    /\ DOMAIN query[1].filters["date"].ops = {">", "="}
    /\ DOMAIN query[1].params = {"speed", "date>", "date"}
    /\ query[1].params["date>"] = "T1"
    /\ query[1].params["date"] = "315"

\* C16: the result has the parameter csv exactly when the format hint is "csv", and
\* then its value is "true".
C16_CsvParameterIffCsvFormat ==
    query # None =>
        LET q == query[1] IN
        /\ ("csv" \in DOMAIN q.params) <=> (q.format = Some("csv"))
        /\ "csv" \in DOMAIN q.params => q.params["csv"] = "true"

C16_Witness ==
    /\ query # None
    /\ query[1].format = Some("csv")
    /\ query[1].filters # <<>>
    /\ "csv" \in DOMAIN query[1].params

-----------------------------------------------------------------------------
(* http_client.py: OpenF1Transport.fetch, fetch_json, fetch_csv             *)

FetchWrappers == {"fetch", "fetch_json", "fetch_csv"}
DefaultFormats == {"json", "csv"}
FetchFilters ==
    { [k \in {} |-> NoneValue],
      [k \in {"speed"} |-> OpsValue([o \in {">="} |-> IntVal(315)])] }

\* What a fetch call gives its caller: the exception raised ("none": it returned)
\* and the kind of value returned.
FetchResult(raised, value) == [raised |-> raised, value |-> value]

\* fetch after self._http.get: an error of request propagates; for csv the result
\* is response.text; otherwise response.json(), which raises on a body that is
\* not JSON and returns whatever JSON value the body holds.
fetch(effective_format, outcome, body) ==
    IF outcome.kind # "response" THEN FetchResult(outcome.kind, "none")
    ELSE IF effective_format = "csv" THEN FetchResult("none", "text")
    ELSE IF body = "nonjson" THEN FetchResult("JSONDecodeError", "none")
    ELSE FetchResult("none", body)

\* fetch_json: fetch with format="json"; a str result becomes [].
fetch_json(outcome, body) ==
    LET result == fetch("json", outcome, body) IN
    IF result.raised # "none" THEN result
    ELSE IF result.value \in {"str", "text"} THEN FetchResult("none", "empty_list")
    ELSE result

\* fetch_csv: fetch with format="csv"; a list result becomes "".
fetch_csv(outcome, body) ==
    LET result == fetch("csv", outcome, body) IN
    IF result.raised # "none" THEN result
    ELSE IF result.value = "list" THEN FetchResult("none", "blank")
    ELSE result

\* A fetch call begins: the effective format is the argument or the configuration's
\* default, the parameters are built, and the GET is handed to request. A call does
\* not depend on earlier calls, so a behaviour makes one.
FetchCall(wrapper, format, default_format, path, filters, max_retries) ==
    /\ req.state = "idle"
    /\ wrapper = "fetch_json" => format = Some("json")
    /\ wrapper = "fetch_csv" => format = Some("csv")
    /\ LET effective_format == IF format # None THEN format[1] ELSE default_format IN
       fetched' = Some([wrapper |-> wrapper, format |-> effective_format,
                        params |-> build_query_params(filters, Some(effective_format))])
    /\ req' = [state |-> "sending", method |-> "GET", path |-> path,
               timeout |-> CHOOSE t \in TimeoutShapes : t.shape = "float",
               max_retries |-> max_retries, total |-> max_retries, attempts |-> 0,
               prev |-> None, all5xx |-> TRUE]
    /\ reqResult' = NoError
    /\ UNCHANGED <<tokenVars, clientVars, query, configVars, authVars, builderVars, stepVars>>

\* What the fetch call in progress gives its caller once its GET has finished.
FetchOutcome ==
    LET f == fetched[1]
        body == req.prev[1].body
    IN IF f.wrapper = "fetch_json" THEN fetch_json(reqResult, body)
       ELSE IF f.wrapper = "fetch_csv" THEN fetch_csv(reqResult, body)
       ELSE fetch(f.format, reqResult, body)

InitFetch ==
    /\ req = IdleReq
    /\ reqResult = NoError
    /\ now = 0
    /\ token = None
    /\ created = 0
    /\ client = NoClient
    /\ sessions = <<>>
    /\ last = NoLast
    /\ query = None
    /\ fetched = None
    /\ configs = NoConfigs
    /\ headers = <<>>
    /\ provider = None
    /\ authOp = None
    /\ builder = None
    /\ dicts = <<>>
    /\ grant = None
    /\ swap = None

NextFetch ==
    \/ \E w \in FetchWrappers, fmt \in Formats, d \in DefaultFormats, p \in Paths,
          f \in FetchFilters, r \in 0..MaxRetries :
           FetchCall(w, fmt, d, p, f, r)
    \/ \E out \in AttemptOutcomes : Attempt(out)

SpecFetch == InitFetch /\ [][NextFetch]_vars

\* The fetch call has finished on a 2xx response whose Retry-After header, if any,
\* is an integer.
FetchedOn2xx ==
    /\ fetched # None
    /\ req.state = "done"
    /\ req.prev[1].type = "response"
    /\ req.prev[1].status >= 200 /\ req.prev[1].status < 300
    /\ req.prev[1].retry_after.form \in {"absent", "int"}

\* C11: on a 2xx response fetch_json returns a list, the empty list when the body
\* is not a JSON list, and fetch_csv returns a string; neither raises.
C11_FetchJsonListFetchCsvString ==
    FetchedOn2xx =>
        /\ fetched[1].wrapper = "fetch_json" =>
              /\ FetchOutcome.raised = "none"
              /\ FetchOutcome.value \in {"list", "empty_list"}
              /\ req.prev[1].body # "list" => FetchOutcome.value = "empty_list"
        /\ fetched[1].wrapper = "fetch_csv" =>
              /\ FetchOutcome.raised = "none"
              /\ FetchOutcome.value \in {"text", "blank"}

-----------------------------------------------------------------------------
(* config.py: ClientConfig                                                  *)

\* A base URL, split into its scheme prefix and the rest so that the prefix test of
\* _validate can be made: "" is [scheme |-> "", rest |-> ""].
Url(scheme, rest) == [scheme |-> scheme, rest |-> rest]
BaseUrls ==
    { Url("", ""), Url("", "api.openf1.org/v1"),
      Url("http://", "localhost/v1"), Url("https://", "api.openf1.org/v1") }

\* A timeout argument: a number (int or float) or a tuple of numbers.
Timeout(shape, values) == [shape |-> shape, values |-> values]
ConfigTimeouts ==
    { Timeout("float", <<30>>), Timeout("float", <<0>>), Timeout("int", <<30>>),
      Timeout("int", <<-1>>), Timeout("tuple", <<5, 30>>), Timeout("tuple", <<5, 0>>),
      Timeout("tuple", <<-1, 30>>), Timeout("tuple", <<1, 2, 3>>) }
RetryCounts == {-1, 0}
Usernames == {None, Some("user")}
Passwords == {None, Some("pass")}
ConfigTokens == {None, Some("tok0")}
FormatNames == {"json", "csv", "xml"}

\* The keyword arguments of ClientConfig(...); extra_headers is the identity of a
\* dict object in `headers`.
ConfigFields ==
    [base_url : BaseUrls, timeout : ConfigTimeouts, max_retries : RetryCounts,
     username : Usernames, password : Passwords, access_token : ConfigTokens,
     default_format : FormatNames, extra_headers : {1}]

\* An extra_headers dict: header name to value.
HeaderNames == {"X-Custom"}
HeaderValues == {"value", "other"}
EmptyDict == [n \in {} |-> "value"]

\* The most ClientConfig objects a behaviour creates.
MaxConfigs == 2

\* A variant of _validate without the username/password test.
_validate_no_auth(c) ==
    IF c.base_url.scheme = "" /\ c.base_url.rest = "" THEN "OpenF1ConfigError"
    ELSE IF c.base_url.scheme \notin {"http://", "https://"} THEN "OpenF1ConfigError"
    ELSE IF c.timeout.shape \in {"int", "float"} /\ c.timeout.values[1] <= 0
        THEN "OpenF1ConfigError"
    ELSE IF c.timeout.shape = "tuple" /\ Len(c.timeout.values) # 2
        THEN "OpenF1ConfigError"
    ELSE IF c.timeout.shape = "tuple"
            /\ \E i \in 1..Len(c.timeout.values) : c.timeout.values[i] <= 0
        THEN "OpenF1ConfigError"
    ELSE IF c.max_retries < 0 THEN "OpenF1ConfigError"
    ELSE IF c.default_format \notin {"json", "csv"} THEN "OpenF1ConfigError"
    ELSE "none"

\* __post_init__ / _validate: the exception raised, "none" when the values pass.
_validate(c) ==
    IF c.base_url.scheme = "" /\ c.base_url.rest = "" THEN "OpenF1ConfigError"
    ELSE IF c.base_url.scheme \notin {"http://", "https://"} THEN "OpenF1ConfigError"
    ELSE IF c.timeout.shape \in {"int", "float"} /\ c.timeout.values[1] <= 0
        THEN "OpenF1ConfigError"
    ELSE IF c.timeout.shape = "tuple" /\ Len(c.timeout.values) # 2
        THEN "OpenF1ConfigError"
    ELSE IF c.timeout.shape = "tuple"
            /\ \E i \in 1..Len(c.timeout.values) : c.timeout.values[i] <= 0
        THEN "OpenF1ConfigError"
    ELSE IF c.max_retries < 0 THEN "OpenF1ConfigError"
    ELSE IF (c.username = None) # (c.password = None) THEN "OpenF1ConfigError"
    ELSE IF c.default_format \notin {"json", "csv"} THEN "OpenF1ConfigError"
    ELSE "none"

\* A variant of the extra_headers argument of with_token and copy that passes the
\* original's dict object on.
extra_headers_copy_shared(heap, id) == [heap |-> heap, id |-> id]

\* self.extra_headers.copy(): a new dict object with the same items.
extra_headers_copy(heap, id) == [heap |-> Append(heap, heap[id]), id |-> Len(heap) + 1]

\* ClientConfig(...) runs __post_init__: the object exists only if _validate passes.
NewConfig(op, on, arg, fields, heap) ==
    IF _validate(fields) # "none"
        THEN /\ configs' = [configs EXCEPT
                               !.last = ConfigOp(op, on, arg, Some(fields), _validate(fields))]
             /\ UNCHANGED headers
    ELSE /\ configs' = [objects |-> Append(configs.objects, fields),
                        made |-> Append(configs.made, [via |-> op, from |-> on]),
                        last |-> ConfigOp(op, on, arg, Some(fields), "none")]
         /\ headers' = heap

\* ClientConfig(**kwargs) with an extra_headers dict of its own (the default factory's
\* empty dict; SetHeader fills it).
ConstructConfig(fields, extra) ==
    /\ configs.last.op = "none"
    /\ NewConfig("construct", 0, None, fields, <<extra>>)
    /\ UNCHANGED <<httpVars, tokenVars, clientVars, queryVars, authVars, builderVars, stepVars>>

\* config.with_token(access_token) on the i-th configuration.
ConfigWithToken(i, access_token) ==
    /\ i \in 1..Len(configs.objects)
    /\ Len(configs.objects) < MaxConfigs
    /\ LET self == configs.objects[i]
           eh == extra_headers_copy(headers, self.extra_headers)
       IN NewConfig("with_token", i, Some(access_token),
                    [self EXCEPT !.access_token = Some(access_token),
                                 !.extra_headers = eh.id],
                    eh.heap)
    /\ UNCHANGED <<httpVars, tokenVars, clientVars, queryVars, authVars, builderVars, stepVars>>

\* The keyword updates copy() is called with, by name: none, or one field.
CopyUpdates ==
    { "none", "max_retries=-1", "max_retries=3", "username=None",
      "default_format=csv", "default_format=xml", "access_token=tok1", "timeout=0.0" }

\* updates.get(field, self.field) for every field but extra_headers.
updated_fields(self, updates) ==
    CASE updates = "max_retries=-1" -> [self EXCEPT !.max_retries = -1]
      [] updates = "max_retries=3" -> [self EXCEPT !.max_retries = 3]
      [] updates = "username=None" -> [self EXCEPT !.username = None]
      [] updates = "default_format=csv" -> [self EXCEPT !.default_format = "csv"]
      [] updates = "default_format=xml" -> [self EXCEPT !.default_format = "xml"]
      [] updates = "access_token=tok1" -> [self EXCEPT !.access_token = Some("tok1")]
      [] updates = "timeout=0.0" -> [self EXCEPT !.timeout = Timeout("float", <<0>>)]
      [] OTHER -> self

\* config.copy(**updates) on the i-th configuration.
ConfigCopy(i, updates) ==
    /\ i \in 1..Len(configs.objects)
    /\ Len(configs.objects) < MaxConfigs
    /\ LET self == configs.objects[i]
           eh == extra_headers_copy(headers, self.extra_headers)
       IN NewConfig("copy", i, Some(updates),
                    [updated_fields(self, updates) EXCEPT !.extra_headers = eh.id],
                    eh.heap)
    /\ UNCHANGED <<httpVars, tokenVars, clientVars, queryVars, authVars, builderVars, stepVars>>

\* config.extra_headers[name] = value on the i-th configuration.
SetHeader(i, name, value) ==
    /\ i \in 1..Len(configs.objects)
    /\ LET id == configs.objects[i].extra_headers
           d == headers[id]
       IN headers' = [headers EXCEPT
                         ![id] = [n \in DOMAIN d \cup {name} |->
                                      IF n = name THEN value ELSE d[n]]]
    /\ configs' = [configs EXCEPT !.last = ConfigOp("set_header", i, Some(name), None, "none")]
    /\ UNCHANGED <<httpVars, tokenVars, clientVars, queryVars, authVars, builderVars, stepVars>>

InitConfig ==
    /\ req = IdleReq
    /\ reqResult = NoError
    /\ now = 0
    /\ token = None
    /\ created = 0
    /\ client = NoClient
    /\ sessions = <<>>
    /\ last = NoLast
    /\ query = None
    /\ fetched = None
    /\ configs = NoConfigs
    /\ headers = <<>>
    /\ provider = None
    /\ authOp = None
    /\ builder = None
    /\ dicts = <<>>
    /\ grant = None
    /\ swap = None

NextConfig ==
    \/ \E f \in ConfigFields : ConstructConfig(f, EmptyDict)
    \/ \E i \in 1..MaxConfigs, t \in AccessTokens : ConfigWithToken(i, t)
    \/ \E i \in 1..MaxConfigs, u \in CopyUpdates : ConfigCopy(i, u)
    \/ \E i \in 1..MaxConfigs, n \in HeaderNames, v \in HeaderValues : SetHeader(i, n, v)

SpecConfig == InitConfig /\ [][NextConfig]_vars

\* The field values satisfy the configuration's invariants.
ValidFields(c) ==
    /\ ~(c.base_url.scheme = "" /\ c.base_url.rest = "")
    /\ c.base_url.scheme \in {"http://", "https://"}
    /\ \A i \in 1..Len(c.timeout.values) : c.timeout.values[i] > 0
    /\ c.max_retries >= 0
    /\ (c.username = None) <=> (c.password = None)
    /\ c.default_format \in {"json", "csv"}

\* C12: every configuration that exists, constructed directly or derived with
\* with_token or copy, has a non-empty http(s) base URL, positive timeout values,
\* max_retries >= 0, username and password both present or both absent, and a
\* default format of json or csv; a construction whose values break one of these
\* raises OpenF1ConfigError, and one whose values keep them all (neither or both
\* credentials included) succeeds.
C12_EveryConfigValid ==
    /\ \A i \in 1..Len(configs.objects) : ValidFields(configs.objects[i])
    /\ configs.last.fields # None =>
          LET f == configs.last.fields[1] IN
          /\ ~ValidFields(f) => configs.last.raised = "OpenF1ConfigError"
          /\ (ValidFields(f) /\ Len(f.timeout.values) <= 2) => configs.last.raised = "none"

C12_Witness ==
    /\ configs.last.op = "construct"
    /\ configs.last.raised = "OpenF1ConfigError"
    /\ configs.objects = <<>>
    /\ configs.last.fields[1].username # None
    /\ configs.last.fields[1].password = None
    /\ ValidFields([configs.last.fields[1] EXCEPT !.password = Some("pass")])

\* The i-th and j-th configurations are an original and the configuration with_token
\* derived from it.
DerivedWithToken(i, j) ==
    \/ configs.made[j].via = "with_token" /\ configs.made[j].from = i
    \/ configs.made[i].via = "with_token" /\ configs.made[i].from = j

\* C13: with_token(t) yields a new configuration with access_token t and every other
\* field, and the items of extra_headers, as in the original; it changes no existing
\* configuration; and a later change of the extra_headers of the original or of the
\* derived configuration does not show in the other's.
C13_WithTokenCopiesAndIsolates ==
    [][ /\ (configs'.last.op = "with_token"
              /\ Len(configs'.objects) = Len(configs.objects) + 1) =>
               LET o == configs.objects[configs'.last.on]
                   n == configs'.objects[Len(configs'.objects)]
               IN /\ n.access_token = configs'.last.arg
                  /\ \A fld \in DOMAIN o \ {"access_token", "extra_headers"} : n[fld] = o[fld]
                  /\ headers'[n.extra_headers] = headers[o.extra_headers]
                  /\ \A i \in 1..Len(configs.objects) :
                        /\ configs'.objects[i] = configs.objects[i]
                        /\ headers'[configs.objects[i].extra_headers]
                               = headers[configs.objects[i].extra_headers]
        /\ (configs'.last.op = "set_header" /\ headers' # headers) =>
               \A j \in 1..Len(configs.objects) :
                   (j # configs'.last.on /\ DerivedWithToken(configs'.last.on, j)) =>
                       headers'[configs.objects[j].extra_headers]
                           = headers[configs.objects[j].extra_headers]
      ]_vars

C13_Witness ==
    /\ Len(configs.objects) = 2
    /\ configs.made[2] = [via |-> "with_token", from |-> 1]
    /\ configs.objects[1].access_token = None
    /\ configs.objects[2].access_token = Some("tok1")
    /\ configs.last.op = "set_header"
    /\ headers[configs.objects[1].extra_headers] # headers[configs.objects[2].extra_headers]

-----------------------------------------------------------------------------
(* auth.py: NoAuthProvider, TokenAuthProvider, PasswordAuthProvider behind   *)
(* an AuthManager                                                            *)

ProviderKinds == {"none", "token", "password"}

\* A provider object. `access_token` is TokenAuthProvider._access_token (Some(s): the
\* str s), `token_info` is PasswordAuthProvider._token_info. `given` is the token the
\* constructor received, `cleared` whether clear() ran since the last set_token,
\* `was_set` whether set_token ever ran.
Provider(kind, access_token, token_info, given, cleared, was_set) ==
    [kind |-> kind, access_token |-> access_token, token_info |-> token_info,
     given |-> given, cleared |-> cleared, was_set |-> was_set]

\* What a provider or manager call did: the exception that reached the caller
\* ("none": it returned), the value returned, the token exchanges it made, whether
\* the first of them failed, and whether get_token would have returned a token
\* without an exchange when the call began.
AuthCall(op, raised, value, exchanges, first_failed, had_token) ==
    [op |-> op, raised |-> raised, value |-> value, exchanges |-> exchanges,
     first_failed |-> first_failed, had_token |-> had_token]

\* A variant of TokenAuthProvider.clear that forgets the token (None).
TokenAuthProvider_clear_none(p) == [p EXCEPT !.access_token = None, !.cleared = TRUE]

\* TokenAuthProvider.clear: self._access_token = "".
TokenAuthProvider_clear(p) == [p EXCEPT !.access_token = Some(""), !.cleared = TRUE]

\* clear() of the provider: NoAuthProvider does nothing, PasswordAuthProvider drops
\* its TokenInfo.
clear(p) ==
    IF p.kind = "token" THEN TokenAuthProvider_clear(p)
    ELSE IF p.kind = "password" THEN [p EXCEPT !.token_info = None, !.cleared = TRUE]
    ELSE [p EXCEPT !.cleared = TRUE]

\* TokenAuthProvider.set_token.
set_token(p, access_token) ==
    [p EXCEPT !.access_token = Some(access_token), !.cleared = FALSE, !.was_set = TRUE]

\* is_authenticated() of the provider at time t: False for NoAuthProvider, True for
\* TokenAuthProvider whatever it holds, and for PasswordAuthProvider whether it holds
\* an unexpired TokenInfo.
provider_is_authenticated(p, t) ==
    IF p.kind = "none" THEN FALSE
    ELSE IF p.kind = "token" THEN TRUE
    ELSE is_authenticated(p.token_info, t)

\* What get_token() of the provider gives, from what PasswordAuthProvider.get_token
\* did (`g`): the value returned, the provider afterwards and the token exchanges made.
password_get_token(p, g) ==
    [raised |-> g.raised, value |-> g.value, p |-> [p EXCEPT !.token_info = g.info],
     exchanges |-> IF g.exchanged THEN 1 ELSE 0, failed |-> g.failed]

\* get_token() of the provider: None for NoAuthProvider, the stored token for
\* TokenAuthProvider; PasswordAuthProvider makes a token exchange, with answer `out`,
\* when it holds no unexpired token.
provider_get_token(p, out, t) ==
    IF p.kind = "none"
        THEN [raised |-> "none", value |-> None, p |-> p, exchanges |-> 0, failed |-> FALSE]
    ELSE IF p.kind = "token"
        THEN [raised |-> "none", value |-> p.access_token, p |-> p, exchanges |-> 0,
              failed |-> FALSE]
    ELSE password_get_token(p, get_token(p.token_info, out, t))

\* What authenticate() of the provider gives, from what
\* PasswordAuthProvider.authenticate did (`a`).
password_authenticate(p, a) ==
    [raised |-> a.err.kind,
     value |-> IF a.err = NoError THEN Some(a.info[1].access_token) ELSE None,
     p |-> [p EXCEPT !.token_info = a.info], exchanges |-> 1]

\* authenticate() of the provider: the exception raised, the access token of the
\* TokenInfo returned, the provider afterwards and the token exchanges made.
provider_authenticate(p, out, t) ==
    IF p.kind = "none"
        THEN [raised |-> "OpenF1AuthError", value |-> None, p |-> p, exchanges |-> 0]
    ELSE IF p.kind = "token"
        THEN [raised |-> "none", value |-> p.access_token, p |-> p, exchanges |-> 0]
    ELSE password_authenticate(p, authenticate(p.token_info, out, t))

\* ensure_authenticated after its authenticate() call `a`, which followed the
\* get_token() call `g`.
ensure_after_authenticate(g, a) ==
    [raised |-> a.raised, value |-> a.value, p |-> a.p,
     exchanges |-> g.exchanges + a.exchanges, first_failed |-> g.failed \/ a.raised # "none"]

\* ensure_authenticated after its get_token() call `g`: authenticate() when that
\* returned None; `out2` answers the exchange authenticate makes.
ensure_after_get_token(g, out2, t) ==
    IF g.raised # "none"
        THEN [raised |-> g.raised, value |-> None, p |-> g.p, exchanges |-> g.exchanges,
              first_failed |-> g.failed]
    ELSE IF g.value = None
        THEN ensure_after_authenticate(g, provider_authenticate(g.p, out2, t))
    ELSE [raised |-> "none", value |-> g.value, p |-> g.p, exchanges |-> g.exchanges,
          first_failed |-> g.failed]

\* AuthManager.ensure_authenticated: get_token(), whose exchange `out1` answers, and
\* authenticate() when that returned None.
ensure_authenticated(p, out1, out2, t) ==
    ensure_after_get_token(provider_get_token(p, out1, t), out2, t)

\* get_token() returns a token without a token exchange.
HasToken(p, t) ==
    IF p.kind = "none" THEN FALSE
    ELSE IF p.kind = "token" THEN TRUE
    ELSE is_authenticated(p.token_info, t)

\* The answers of the token endpoint in SpecAuth: successes with an unknown, a long
\* and an already-lapsed lifetime, and a failure of each sort (error status,
\* transport failure, a 2xx body that is not JSON).
AuthExchanges ==
    { ExchangeOutcome("ok", 200, "dict", Some("tok1"), None),
      ExchangeOutcome("ok", 200, "dict", Some("tok2"), Some(120)),
      ExchangeOutcome("ok", 200, "dict", Some("tok1"), Some(60)),
      ExchangeOutcome("ok", 401, "dict", None, None),
      ExchangeOutcome("ConnectionError", 0, "none", None, None),
      ExchangeOutcome("ok", 200, "nonjson", None, None) }

\* The tokens handed to TokenAuthProvider(...) and set_token; "" is the empty string.
StaticTokens == AccessTokens \cup {""}

\* AuthManager(provider) over a new provider. TokenAuthProvider("") raises
\* OpenF1ConfigError and no provider exists.
CreateProvider(kind, access_token) ==
    /\ provider = None
    /\ IF kind = "token" /\ access_token = ""
           THEN /\ authOp' = Some(AuthCall("create", "OpenF1ConfigError", None, 0, FALSE, FALSE))
                /\ UNCHANGED provider
       ELSE /\ provider' =
                  Some(IF kind = "token"
                           THEN Provider(kind, Some(access_token), None, Some(access_token),
                                         FALSE, FALSE)
                       ELSE Provider(kind, None, None, None, FALSE, FALSE))
            /\ authOp' = Some(AuthCall("create", "none", None, 0, FALSE, FALSE))
    /\ UNCHANGED <<httpVars, tokenVars, clientVars, queryVars, configVars, builderVars, stepVars>>

\* AuthManager.clear().
AuthClear ==
    /\ provider # None
    /\ provider' = Some(clear(provider[1]))
    /\ authOp' = Some(AuthCall("clear", "none", None, 0, FALSE, HasToken(provider[1], now)))
    /\ UNCHANGED <<httpVars, tokenVars, clientVars, queryVars, configVars, builderVars, stepVars>>

\* TokenAuthProvider.set_token(access_token).
AuthSetToken(access_token) ==
    /\ provider # None
    /\ provider[1].kind = "token"
    /\ provider' = Some(set_token(provider[1], access_token))
    /\ authOp' = Some(AuthCall("set_token", "none", None, 0, FALSE, TRUE))
    /\ UNCHANGED <<httpVars, tokenVars, clientVars, queryVars, configVars, builderVars, stepVars>>

\* A call of the manager ends: the provider is as the call left it and the call is
\* recorded.
AuthReturns(op, r, first_failed, had_token) ==
    /\ provider' = Some(r.p)
    /\ authOp' = Some(AuthCall(op, r.raised, r.value, r.exchanges, first_failed, had_token))

\* AuthManager.get_token().
AuthGetToken(out) ==
    /\ provider # None
    /\ AuthReturns("get_token", provider_get_token(provider[1], out, now), FALSE,
                   HasToken(provider[1], now))
    /\ UNCHANGED <<httpVars, tokenVars, clientVars, queryVars, configVars, builderVars, stepVars>>

\* AuthManager.authenticate().
AuthAuthenticate(out) ==
    /\ provider # None
    /\ AuthReturns("authenticate", provider_authenticate(provider[1], out, now), FALSE,
                   HasToken(provider[1], now))
    /\ UNCHANGED <<httpVars, tokenVars, clientVars, queryVars, configVars, builderVars, stepVars>>

\* AuthManager.ensure_authenticated(). The record of the call says whether the
\* first authentication it made failed.
AuthEnsureReturns(e, had_token) ==
    AuthReturns("ensure_authenticated", e, e.first_failed, had_token)

AuthEnsure(out1, out2) ==
    /\ provider # None
    /\ AuthEnsureReturns(ensure_authenticated(provider[1], out1, out2, now),
                         HasToken(provider[1], now))
    /\ UNCHANGED <<httpVars, tokenVars, clientVars, queryVars, configVars, builderVars, stepVars>>

\* Time passes.
AuthTick ==
    /\ provider # None
    /\ now + TickStep <= MaxTime
    /\ now' = now + TickStep
    /\ authOp' = Some(AuthCall("tick", "none", None, 0, FALSE, FALSE))
    /\ UNCHANGED <<httpVars, token, created, clientVars, queryVars, configVars, provider,
                   builderVars, stepVars>>

InitAuth ==
    /\ req = IdleReq
    /\ reqResult = NoError
    /\ now = 0
    /\ token = None
    /\ created = 0
    /\ client = NoClient
    /\ sessions = <<>>
    /\ last = NoLast
    /\ query = None
    /\ fetched = None
    /\ configs = NoConfigs
    /\ headers = <<>>
    /\ provider = None
    /\ authOp = None
    /\ builder = None
    /\ dicts = <<>>
    /\ grant = None
    /\ swap = None

NextAuth ==
    \/ \E k \in ProviderKinds, a \in StaticTokens : CreateProvider(k, a)
    \/ AuthClear
    \/ \E a \in StaticTokens : AuthSetToken(a)
    \/ \E out \in AuthExchanges : AuthGetToken(out)
    \/ \E out \in AuthExchanges : AuthAuthenticate(out)
    \/ \E out1 \in AuthExchanges, out2 \in AuthExchanges : AuthEnsure(out1, out2)
    \/ AuthTick

SpecAuth == InitAuth /\ [][NextAuth]_vars

\* C17: right after clear() the provider is not authenticated, and a second clear()
\* would leave it as the first did, for each of the three providers.
C17_ClearResetsAndIsIdempotent ==
    (provider # None /\ authOp[1].op = "clear") =>
        /\ ~provider_is_authenticated(provider[1], now)
        /\ clear(provider[1]) = provider[1]

\* What get_token() of the static-token provider p returns, `value`, is "" once
\* clear() ran, and before any clear() or set_token the non-empty constructor token;
\* a get_token() call made after clear() returned "".
StaticTokenReturned(p, value) ==
    /\ p.cleared => value = Some("")
    /\ (~p.cleared /\ ~p.was_set) => (value = p.given /\ value # Some("") /\ value # None)
    /\ (authOp[1].op = "get_token" /\ p.cleared) => authOp[1].value = Some("")

\* C18: a static-token provider returns "" (a string, not None) from get_token() in
\* every state after clear() until set_token is called, and the non-empty token it
\* was constructed with in every state before any clear() or set_token.
C18_StaticTokenEmptyAfterClear ==
    (provider # None /\ provider[1].kind = "token") =>
        StaticTokenReturned(provider[1],
                            provider_get_token(provider[1],
                                               CHOOSE out \in AuthExchanges : TRUE, now).value)

C18_Witness ==
    /\ provider # None
    /\ provider[1].kind = "token"
    /\ provider[1].cleared
    /\ provider[1].was_set
    /\ authOp[1].op = "get_token"
    /\ authOp[1].value = Some("")

\* C19: ensure_authenticated() returns the current token and makes no token
\* exchange when a token is present; otherwise it authenticates once (at most one
\* token exchange) and returns the new token, and when that authentication fails
\* the caller gets OpenF1AuthError.
C19_EnsureAuthenticatesOnce ==
    (provider # None /\ authOp[1].op = "ensure_authenticated") =>
        LET c == authOp[1] IN
        /\ c.had_token => (c.exchanges = 0 /\ c.raised = "none" /\ c.value # None)
        /\ ~c.had_token =>
              /\ c.exchanges <= 1
              /\ c.first_failed => c.raised = "OpenF1AuthError"
              /\ (provider[1].kind = "password" /\ ~c.first_failed) =>
                    (c.raised = "none" /\ c.value = Some(provider[1].token_info[1].access_token))
              /\ provider[1].kind = "none" => c.raised = "OpenF1AuthError"

-----------------------------------------------------------------------------
(* utils.py: FilterBuilder                                                  *)

\* `dicts` is the heap of dict objects, by identity (position). The items of a dict
\* map a name (a field, or an operator symbol) to a scalar or to the identity of
\* another dict: the filter dict maps a field to a value or to its operator dict.
ScalarItem(n) == [kind |-> "scalar", n |-> n]
RefItem(id) == [kind |-> "ref", n |-> id]
NoItems == [x \in {} |-> ScalarItem(0)]

\* The comparison methods and the operator each one sets.
CompareMethods == {"gt", "gte", "lt", "lte"}
operator_of(method) ==
    CASE method = "gt" -> ">" [] method = "gte" -> ">=" [] method = "lt" -> "<"
      [] OTHER -> "<="

BuilderFields == {"speed", "date"}
BuilderValues == {1, 2}

\* The most builder calls a behaviour makes.
MaxCalls == 3

\* d[name] = item on a dict's items.
set_item(items, name, item) ==
    [x \in DOMAIN items \cup {name} |-> IF x = name THEN item ELSE items[x]]

\* The value of a filter dict read through its identity: each field with its scalar
\* or with the items of its operator dict.
DictValue(heap, id) ==
    [k \in DOMAIN heap[id] |->
        IF heap[id][k].kind = "ref"
            THEN [kind |-> "ops", n |-> 0, ops |-> heap[heap[id][k].n]]
        ELSE [kind |-> "scalar", n |-> heap[id][k].n, ops |-> NoItems]]

\* FilterBuilder(): self._filters = {}.
NewBuilder ==
    /\ builder = None
    /\ dicts' = <<NoItems>>
    /\ builder' = Some([filters |-> 1, built |-> <<>>, snaps |-> <<>>, calls |-> 0])
    /\ UNCHANGED <<httpVars, tokenVars, clientVars, queryVars, configVars, authVars, stepVars>>

\* A builder call is counted.
Called == [builder[1] EXCEPT !.calls = @ + 1]

\* eq(field, value): self._filters[field] = value.
BuilderEq(field, value) ==
    /\ builder # None /\ builder[1].calls < MaxCalls
    /\ dicts' = [dicts EXCEPT ![builder[1].filters] = set_item(@, field, ScalarItem(value))]
    /\ builder' = Some(Called)
    /\ UNCHANGED <<httpVars, tokenVars, clientVars, queryVars, configVars, authVars, stepVars>>

\* gt, gte, lt, lte(field, value): a field that is absent or not a dict gets a new
\* empty dict; then the operator is set in the field's dict.
BuilderCompare(method, field, value) ==
    /\ builder # None /\ builder[1].calls < MaxCalls
    /\ LET f == builder[1].filters
           fresh == field \notin DOMAIN dicts[f] \/ dicts[f][field].kind # "ref"
           id == IF fresh THEN Len(dicts) + 1 ELSE dicts[f][field].n
           heap == IF fresh
                       THEN [Append(dicts, NoItems) EXCEPT ![f] = set_item(@, field, RefItem(id))]
                   ELSE dicts
       IN dicts' = [heap EXCEPT ![id] = set_item(@, operator_of(method), ScalarItem(value))]
    /\ builder' = Some(Called)
    /\ UNCHANGED <<httpVars, tokenVars, clientVars, queryVars, configVars, authVars, stepVars>>

\* between(field, lower, upper, inclusive): the field gets a new dict of two operators.
BuilderBetween(field, lower, upper, inclusive) ==
    /\ builder # None /\ builder[1].calls < MaxCalls
    /\ LET id == Len(dicts) + 1
           lo == IF inclusive THEN ">=" ELSE ">"
           hi == IF inclusive THEN "<=" ELSE "<"
           d == set_item(set_item(NoItems, lo, ScalarItem(lower)), hi, ScalarItem(upper))
       IN dicts' = [Append(dicts, d) EXCEPT ![builder[1].filters] = set_item(@, field, RefItem(id))]
    /\ builder' = Some(Called)
    /\ UNCHANGED <<httpVars, tokenVars, clientVars, queryVars, configVars, authVars, stepVars>>

\* build(): self._filters.copy(), a new dict with the same items (an operator dict
\* is an item, so the copy holds the same operator dict objects). `snaps` keeps the
\* value the returned dict had when it was returned.
BuilderBuild ==
    /\ builder # None /\ builder[1].calls < MaxCalls
    /\ dicts' = Append(dicts, dicts[builder[1].filters])
    /\ builder' = Some([Called EXCEPT
                           !.built = Append(@, Len(dicts) + 1),
                           !.snaps = Append(@, DictValue(dicts, builder[1].filters))])
    /\ UNCHANGED <<httpVars, tokenVars, clientVars, queryVars, configVars, authVars, stepVars>>

\* clear(): self._filters.clear().
BuilderClear ==
    /\ builder # None /\ builder[1].calls < MaxCalls
    /\ dicts' = [dicts EXCEPT ![builder[1].filters] = NoItems]
    /\ builder' = Some(Called)
    /\ UNCHANGED <<httpVars, tokenVars, clientVars, queryVars, configVars, authVars, stepVars>>

InitBuilder ==
    /\ req = IdleReq
    /\ reqResult = NoError
    /\ now = 0
    /\ token = None
    /\ created = 0
    /\ client = NoClient
    /\ sessions = <<>>
    /\ last = NoLast
    /\ query = None
    /\ fetched = None
    /\ configs = NoConfigs
    /\ headers = <<>>
    /\ provider = None
    /\ authOp = None
    /\ builder = None
    /\ dicts = <<>>
    /\ grant = None
    /\ swap = None

NextBuilder ==
    \/ NewBuilder
    \/ \E f \in BuilderFields, v \in BuilderValues : BuilderEq(f, v)
    \/ \E m \in CompareMethods, f \in BuilderFields, v \in BuilderValues :
           BuilderCompare(m, f, v)
    \/ \E f \in BuilderFields, inclusive \in BOOLEAN : BuilderBetween(f, 1, 2, inclusive)
    \/ BuilderBuild
    \/ BuilderClear

SpecBuilder == InitBuilder /\ [][NextBuilder]_vars

\* C20: a dictionary returned by build() keeps the value it had when it was
\* returned, whatever the builder is asked afterwards, and the dictionaries of two
\* build() calls are distinct objects that share no dict.
C20_BuildReturnsIndependentCopy ==
    builder # None =>
        LET b == builder[1] IN
        /\ \A i \in 1..Len(b.built) : DictValue(dicts, b.built[i]) = b.snaps[i]
        /\ \A i, j \in 1..Len(b.built) :
              i # j =>
                  /\ b.built[i] # b.built[j]
                  /\ \A k \in DOMAIN dicts[b.built[i]] \cap DOMAIN dicts[b.built[j]] :
                        dicts[b.built[i]][k].kind = "ref" =>
                            dicts[b.built[i]][k] # dicts[b.built[j]][k]

\* What build() would return holds, for field f, the operators and the equality
\* value (as operator "=") that `before` held for f, except operator op.
ConstraintsKept(before, after, f, op) ==
    f \in DOMAIN before =>
        IF before[f].kind = "ops"
            THEN \A o \in DOMAIN before[f].ops \ {op} :
                    o \in DOMAIN after[f].ops /\ after[f].ops[o] = before[f].ops[o]
        ELSE "=" \in DOMAIN after[f].ops /\ after[f].ops["="] = ScalarItem(before[f].n)

\* What a gt, gte, lt or lte call on field f is claimed to do to the filters.
ComparisonAdded(before, after, f, op, v) ==
    /\ \A g \in DOMAIN before \ {f} : g \in DOMAIN after /\ after[g] = before[g]
    /\ f \in DOMAIN after
    /\ after[f].kind = "ops"
    /\ op \in DOMAIN after[f].ops
    /\ after[f].ops[op] = ScalarItem(v)
    /\ ConstraintsKept(before, after, f, op)

\* C30 (as claimed): a gt, gte, lt or lte call leaves every other field as it was
\* and, in its own field, keeps every operator added earlier and an equality value
\* added earlier with eq, and adds the new operator.
C30_ComparisonKeepsEarlierConstraints ==
    [][\A m \in CompareMethods, f \in BuilderFields, v \in BuilderValues :
           BuilderCompare(m, f, v) =>
               ComparisonAdded(DictValue(dicts, builder[1].filters),
                               DictValue(dicts', builder[1].filters),
                               f, operator_of(m), v)]_vars

-----------------------------------------------------------------------------
(* auth.py: PasswordAuthProvider under one or two callers (SpecGrant)       *)

\* The callers (threads) that share the provider.
Callers == {1, 2}

\* The most calls a behaviour of SpecGrant begins, and the end of its clock.
MaxGrantCalls == 2
MaxGrantTime == 60

\* A caller that is in no call.
IdleCaller ==
    [pc |-> "idle", needed |-> FALSE, alone |-> TRUE, began |-> 0, exchanges |-> 0]

\* A finished call: the operation, the answer of the token endpoint when the call
\* is authenticate() (None otherwise), the exception raised (NoError: it returned),
\* the access token get_token returned, the TokenInfo authenticate returned,
\* the provider's _token_info when the call ended, the token exchanges made, whether
\* get_token found no unexpired token when it began, whether no other call was in
\* progress during the call, and the instants it began and ended.
Finished(op, out, err, value, returned, cached, exchanges, needed, alone, began, at) ==
    [op |-> op, out |-> out, err |-> err, value |-> value, returned |-> returned,
     cached |-> cached, exchanges |-> exchanges, needed |-> needed, alone |-> alone,
     began |-> began, at |-> at]

\* The username and the password handed to the constructor; "" is the empty string.
GrantCredentials == {"", "u"}

\* PasswordAuthProvider.__init__: OpenF1ConfigError for an empty username or
\* password, else a provider holding no token. `done` are the last two finished
\* calls, the latest last; `calls` counts the calls begun.
GrantCreate(username, password) ==
    /\ grant = None
    /\ grant' =
          Some([raised |-> IF username = "" \/ password = ""
                               THEN "OpenF1ConfigError" ELSE "none",
                token_info |-> None,
                callers |-> [c \in Callers |-> IdleCaller],
                done |-> <<>>, calls |-> 0])
    /\ UNCHANGED <<httpVars, tokenVars, clientVars, queryVars, configVars, authVars,
                   builderVars, swap>>

\* The provider exists and caller c can begin a call.
CanCall(c) ==
    /\ grant # None
    /\ grant[1].raised = "none"
    /\ grant[1].callers[c].pc = "idle"
    /\ grant[1].calls < MaxGrantCalls

\* The record of the finished calls after one more: the call before it is kept
\* without the answer, the error and the TokenInfo returned.
Done(g, f) ==
    IF g.done = <<>> THEN <<f>>
    ELSE << [g.done[Len(g.done)] EXCEPT !.out = None, !.err = NoError,
                                        !.returned = None], f >>

\* Caller c begins a call: every call in progress now has company.
Begun(g, c, pc, needed, t) ==
    [g EXCEPT
        !.calls = @ + 1,
        !.callers = [d \in Callers |->
            IF d = c
                THEN [pc |-> pc, needed |-> needed,
                      alone |-> \A e \in Callers \ {c} : g.callers[e].pc = "idle",
                      began |-> t, exchanges |-> 0]
            ELSE IF g.callers[d].pc # "idle" THEN [g.callers[d] EXCEPT !.alone = FALSE]
            ELSE g.callers[d]]]

\* get_token, first statement: the test of
\* `self._token_info is None or self._token_info.is_expired`.
GetTokenCheck(c) ==
    /\ CanCall(c)
    /\ LET g == grant[1]
           needed == g.token_info = None \/ is_expired(g.token_info[1], now)
       IN grant' = Some(Begun(g, c, IF needed THEN "authenticate" ELSE "return",
                              needed, now))
    /\ UNCHANGED <<httpVars, tokenVars, clientVars, queryVars, configVars, authVars,
                   builderVars, swap>>

\* get_token after its authenticate() call `a`: an OpenF1AuthError ends the call
\* with None, any other exception escapes, success goes on to the return statement.
get_token_authenticated(g, c, a, t) ==
    LET me == g.callers[c] IN
    IF a.err = NoError
        THEN [g EXCEPT !.token_info = a.info,
                       !.callers[c].pc = "return",
                       !.callers[c].exchanges = @ + 1]
    ELSE [g EXCEPT
             !.token_info = a.info,
             !.callers[c] = IdleCaller,
             !.done = Done(g, Finished("get_token", None,
                                       IF a.err.kind = "OpenF1AuthError" THEN NoError
                                       ELSE a.err,
                                       None, None, a.info, me.exchanges + 1,
                                       me.needed, me.alone, me.began, t))]

\* get_token, second statement: self.authenticate() inside try/except
\* OpenF1AuthError; `out` is the answer of the token endpoint.
GetTokenAuthenticate(c, out) ==
    /\ grant # None
    /\ grant[1].callers[c].pc = "authenticate"
    /\ grant' = Some(get_token_authenticated(grant[1], c,
                                             authenticate(grant[1].token_info, out, now),
                                             now))
    /\ UNCHANGED <<httpVars, tokenVars, clientVars, queryVars, configVars, authVars,
                   builderVars, swap>>

\* get_token, last statement:
\* `return self._token_info.access_token if self._token_info else None`.
GetTokenReturn(c) ==
    /\ grant # None
    /\ grant[1].callers[c].pc = "return"
    /\ LET g == grant[1]
           me == g.callers[c]
           value == IF g.token_info # None THEN Some(g.token_info[1].access_token)
                    ELSE None
       IN grant' = Some([g EXCEPT
                            !.callers[c] = IdleCaller,
                            !.done = Done(g, Finished("get_token", None, NoError, value,
                                                      None, g.token_info, me.exchanges,
                                                      me.needed, me.alone, me.began,
                                                      now))])
    /\ UNCHANGED <<httpVars, tokenVars, clientVars, queryVars, configVars, authVars,
                   builderVars, swap>>

\* The provider after a whole authenticate() call `a` of caller c that began in g.
authenticated(g, c, out, a, t) ==
    [g EXCEPT
        !.token_info = a.info,
        !.callers[c] = IdleCaller,
        !.done = Done(g, Finished("authenticate", Some(out), a.err, None,
                                  IF a.err = NoError THEN a.info ELSE None, a.info,
                                  1, FALSE, g.callers[c].alone, t, t))]

\* PasswordAuthProvider.authenticate() called directly.
GrantAuthenticate(c, out) ==
    /\ CanCall(c)
    /\ grant' = Some(authenticated(Begun(grant[1], c, "idle", FALSE, now), c, out,
                                   authenticate(grant[1].token_info, out, now), now))
    /\ UNCHANGED <<httpVars, tokenVars, clientVars, queryVars, configVars, authVars,
                   builderVars, swap>>

\* PasswordAuthProvider.clear(): self._token_info = None.
GrantClear(c) ==
    /\ CanCall(c)
    /\ LET g == Begun(grant[1], c, "idle", FALSE, now) IN
       grant' = Some([g EXCEPT
                         !.token_info = None,
                         !.callers[c] = IdleCaller,
                         !.done = Done(g, Finished("clear", None, NoError, None, None, None,
                                                   0, FALSE, g.callers[c].alone, now,
                                                   now))])
    /\ UNCHANGED <<httpVars, tokenVars, clientVars, queryVars, configVars, authVars,
                   builderVars, swap>>

\* Time passes.
GrantTick ==
    /\ grant # None
    /\ grant[1].raised = "none"
    /\ now + TickStep <= MaxGrantTime
    /\ now' = now + TickStep
    /\ UNCHANGED <<httpVars, token, created, clientVars, queryVars, configVars, authVars,
                   builderVars, stepVars>>

InitGrant ==
    /\ req = IdleReq
    /\ reqResult = NoError
    /\ now = 0
    /\ token = None
    /\ created = 0
    /\ client = NoClient
    /\ sessions = <<>>
    /\ last = NoLast
    /\ query = None
    /\ fetched = None
    /\ configs = NoConfigs
    /\ headers = <<>>
    /\ provider = None
    /\ authOp = None
    /\ builder = None
    /\ dicts = <<>>
    /\ grant = None
    /\ swap = None

NextGrant ==
    \/ \E u \in GrantCredentials, p \in GrantCredentials : GrantCreate(u, p)
    \/ \E c \in Callers : GetTokenCheck(c)
    \/ \E c \in Callers, out \in AuthExchanges : GetTokenAuthenticate(c, out)
    \/ \E c \in Callers : GetTokenReturn(c)
    \/ \E c \in Callers, out \in ExchangeOutcomes : GrantAuthenticate(c, out)
    \/ \E c \in Callers : GrantClear(c)
    \/ GrantTick

SpecGrant == InitGrant /\ [][NextGrant]_vars

\* The last finished call on the provider.
LastDone == grant[1].done[Len(grant[1].done)]

\* What the claim says authenticate() raises for the answer `out` of the token
\* endpoint: the error of a 401/403 with that status, the error of a body without
\* access_token with status 0 and the payload, and for every other failure an
\* OpenF1AuthError with status 0.
ExpectedAuthError(out) ==
    IF out.wire = "ok" /\ out.status \in {401, 403}
        THEN APIErrorOf("OpenF1AuthError", out.status, "text", TOKEN_URL, None)
    ELSE IF out.wire = "ok" /\ out.status \in 200..299 /\ out.body = "dict"
            /\ (out.data.access_token = None \/ out.data.access_token = Some(""))
        THEN Outcome("OpenF1AuthError", Some(0), Some("payload"), None, None, None)
    ELSE IF out \in GoodExchanges THEN NoError
    ELSE Outcome("OpenF1AuthError", Some(0), None, None, None, None)

\* C21: password-grant authenticate() raises nothing but OpenF1AuthError: the error
\* of a 401/403 answer or of a body without access_token as it was raised (status
\* 401/403, or 0 with the payload), every other failure as an OpenF1AuthError with
\* status code 0; when it returns, the TokenInfo returned is the cached one and
\* holds the access token of the answer.
C21_AuthenticateRaisesOnlyAuthErrors ==
    (grant # None /\ grant[1].done # <<>> /\ LastDone.op = "authenticate") =>
        LET d == LastDone IN
        /\ d.err.kind \in {"none", "OpenF1AuthError"}
        /\ d.err = ExpectedAuthError(d.out[1])
        /\ d.err = NoError =>
              /\ d.returned # None
              /\ d.returned = d.cached
              /\ d.returned[1].access_token = d.out[1].data.access_token[1]
        /\ d.err # NoError => d.returned = None

C21_Witness ==
    /\ grant # None /\ grant[1].done # <<>>
    /\ LastDone.op = "authenticate"
    /\ LastDone.out[1].wire = "ok"
    /\ LastDone.out[1].status = 403
    /\ LastDone.err.kind = "OpenF1AuthError"
    /\ LastDone.err.status_code = Some(403)

\* The last finished call is a get_token() that ran with no other call in progress
\* and nothing has happened since: no call is in progress and the clock stands
\* where it stood when the call began and when it returned.
JustReturnedFromGetToken ==
    /\ grant # None /\ grant[1].done # <<>>
    /\ LastDone.op = "get_token"
    /\ LastDone.alone
    /\ LastDone.began = now
    /\ LastDone.at = now
    /\ \A c \in Callers : grant[1].callers[c].pc = "idle"

\* The two last finished calls are get_token() calls that ran one after the other
\* at one instant, with no other call in progress.
TwoGetTokensInARow ==
    /\ grant # None /\ Len(grant[1].done) = 2
    /\ \A i \in 1..2 :
          /\ grant[1].done[i].op = "get_token"
          /\ grant[1].done[i].alone
          /\ grant[1].done[i].began = now
          /\ grant[1].done[i].at = now

\* C29 (as claimed): right after a password-grant get_token() returned a token,
\* is_authenticated() is True, and a further get_token() at the same instant makes
\* no token exchange, whatever lifetime the token endpoint returned.
C29_TokenReturnedIsAuthenticated ==
    /\ (JustReturnedFromGetToken /\ LastDone.value # None) =>
           is_authenticated(grant[1].token_info, now)
    /\ (TwoGetTokensInARow /\ grant[1].done[1].value # None) =>
           grant[1].done[2].exchanges = 0

\* C25 (as claimed): two get_token() calls that run one after the other on a
\* provider holding no unexpired token make one token exchange between them when
\* the exchange succeeds; and, whatever the interleaving, a get_token() call makes
\* at most one exchange.
C25_SequentialCallersExchangeOnce ==
    /\ (TwoGetTokensInARow /\ grant[1].done[1].needed /\ grant[1].done[1].value # None) =>
           grant[1].done[1].exchanges + grant[1].done[2].exchanges = 1
    /\ grant # None =>
           /\ \A i \in 1..Len(grant[1].done) : grant[1].done[i].exchanges <= 1
           /\ \A c \in Callers : grant[1].callers[c].exchanges <= 1

\* Two callers ran get_token() concurrently on a provider holding no unexpired
\* token, and each made a token exchange.
BothExchanged ==
    /\ grant # None /\ Len(grant[1].done) = 2
    /\ \A i \in 1..2 :
          /\ grant[1].done[i].op = "get_token"
          /\ ~grant[1].done[i].alone
          /\ grant[1].done[i].needed
          /\ grant[1].done[i].exchanges = 1
    /\ grant[1].done[1].began = grant[1].done[2].began

-----------------------------------------------------------------------------
(* auth.py: TokenInfo objects however they are constructed (SpecInfo)       *)

\* The expires_at a caller of the dataclass constructor passes: the default None,
\* or an instant of its own.
ExpiryInstants == {None, Some(3600)}

\* TokenInfo(access_token=..., expires_in=..., expires_at=...): the dataclass
\* constructor stores the fields as they are given; nothing derives expires_at
\* from expires_in.
TokenInfoInit(access_token, expires_in, expires_at) ==
    /\ token = None
    /\ now <= MaxStart
    /\ token' = Some([access_token |-> access_token, expires_in |-> expires_in,
                      expires_at |-> expires_at])
    /\ created' = now
    /\ UNCHANGED <<req, reqResult, now, client, sessions, last>>
    /\ UNCHANGED <<queryVars, configVars, authVars, builderVars, stepVars>>

InitInfo ==
    /\ req = IdleReq
    /\ reqResult = NoError
    /\ now = 0
    /\ token = None
    /\ created = 0
    /\ client = NoClient
    /\ sessions = <<>>
    /\ last = NoLast
    /\ query = None
    /\ fetched = None
    /\ configs = NoConfigs
    /\ headers = <<>>
    /\ provider = None
    /\ authOp = None
    /\ builder = None
    /\ dicts = <<>>
    /\ grant = None
    /\ swap = None

NextInfo ==
    \/ \E a \in AccessTokens, e \in Lifetimes, x \in ExpiryInstants : TokenInfoInit(a, e, x)
    \/ \E a \in AccessTokens, e \in Lifetimes :
           TokenFromResponse([access_token |-> Some(a), expires_in |-> e])
    \/ \E d \in ClockSteps : ClockAdvance(d)

SpecInfo == InitInfo /\ [][NextInfo]_vars

\* C22 (as claimed): every TokenInfo whose expires_in is set has expires_at equal
\* to its construction time plus expires_in, and is expired exactly from that
\* instant minus 60 seconds on; a TokenInfo whose expires_in is not set is never
\* expired.
C22_KnownLifetimeHasExpiry ==
    token # None =>
        /\ token[1].expires_in # None =>
              /\ token[1].expires_at = Some(created + token[1].expires_in[1])
              /\ is_expired(token[1], now) <=> now >= created + token[1].expires_in[1] - 60
        /\ token[1].expires_in = None => ~is_expired(token[1], now)

-----------------------------------------------------------------------------
(* Properties of the client's HTTP sessions (Spec)                          *)

\* C24 (as claimed): once the client is closed, or its construction has raised,
\* no session the client opened is still open.
C24_NoSessionLeftOpen ==
    client.phase \in {"closed", "failed"} =>
        \A i \in 1..Len(sessions) : ~sessions[i].open

\* C26 (as claimed): a data request, and a token exchange made by the provider's
\* get_token, never goes through an HTTP client that the client has closed.
C26_NoRequestThroughClosedClient ==
    (last.op \in {"data_request", "get_token"} /\ last.via # 0) =>
        sessions[last.via].open

\* C27 (as claimed): in a client whose construction-time authentication failed
\* and whose later authenticate() call obtained token tok, every data request
\* carries Authorization: Bearer tok, whichever endpoint accessor it goes through.
C27_TokenOnEveryRequestAfterAuthenticate ==
    (last.op = "data_request" /\ client.kind = "password"
        /\ client.eager = None /\ client.explicit # None) =>
        last.header = Bearer(client.explicit[1])

-----------------------------------------------------------------------------
(* Properties of the exceptions of SyncHTTPClient.request (SpecHTTP)        *)

\* The error classes of errors.py that request is documented to raise.
RequestErrors ==
    {"OpenF1APIError", "OpenF1AuthError", "OpenF1NotFoundError", "OpenF1RateLimitError",
     "OpenF1ServerError", "OpenF1TransportError", "OpenF1TimeoutError"}

\* C28 (as claimed): a finished request call returned the response or raised one
\* of the client's error classes, whatever the status code and the Retry-After
\* header of the final response, and a 2xx response was returned.
C28_OnlyTaxonomyErrorsEscape ==
    req.state = "done" =>
        /\ reqResult.kind \in RequestErrors \cup {"response"}
        /\ (FinishedWithResponse /\ req.prev[1].status \in 200..299) =>
               reqResult.kind = "response"

-----------------------------------------------------------------------------
(* client.py: _setup_authenticated_client, statement by statement (SpecSwap) *)

\* The client's fields while a call runs: `pc` is the statement about to run
\* ("ready": no call in progress), config_token the access_token of self._config,
\* http and transport the SyncHTTPClient (a position in `sessions`) that
\* self._http_client is and that self._transport wraps, token_info the provider's
\* cached TokenInfo, got the local variable token_info.
SwapClient(pc, kind, has_credentials, config_token, auth_provider, token_info) ==
    [pc |-> pc, kind |-> kind, has_credentials |-> has_credentials,
     config_token |-> config_token, provider |-> auth_provider, http |-> 1, transport |-> 1,
     token_info |-> token_info, got |-> None]

\* OpenF1Client.__init__: configuration, HTTP client, transport and provider; with
\* credentials it goes on into _setup_authenticated_client.
SwapConstruct(kind) ==
    /\ swap = None
    /\ LET creds == kind \in {"password", "both", "empty"}
           ctok == IF kind \in {"token", "both"} THEN Some(STATIC_TOKEN) ELSE None
           prov == _create_auth_manager(ctok, creds, kind = "empty")
       IN swap' = Some(SwapClient(IF prov = "OpenF1ConfigError" THEN "failed"
                                  ELSE IF creds THEN "test" ELSE "ready",
                                  kind, creds, ctok, prov, None))
          /\ sessions' = << [token |-> ctok, open |-> TRUE] >>
    /\ UNCHANGED <<httpVars, tokenVars, client, last, queryVars, configVars, authVars,
                   builderVars, grant>>

\* OpenF1Client.authenticate(): calls _setup_authenticated_client.
SwapCall ==
    /\ swap # None
    /\ swap[1].pc = "ready"
    /\ swap' = Some([swap[1] EXCEPT !.pc = "test"])
    /\ UNCHANGED <<httpVars, tokenVars, clientVars, queryVars, configVars, authVars,
                   builderVars, grant>>

\* if self._config.has_credentials and not self._config.has_token:
SwapTest ==
    /\ swap # None
    /\ swap[1].pc = "test"
    /\ swap' = Some([swap[1] EXCEPT
                        !.pc = IF swap[1].has_credentials /\ swap[1].config_token = None
                                   THEN "authenticate" ELSE "ready"])
    /\ UNCHANGED <<httpVars, tokenVars, clientVars, queryVars, configVars, authVars,
                   builderVars, grant>>

\* The client after `token_info = self._auth_manager.authenticate()` gave `a`: an
\* exception goes to the except clause, which logs it and ends the call.
setup_authenticated(w, a) ==
    IF a.err = NoError
        THEN [w EXCEPT !.pc = "with_token", !.token_info = a.info, !.got = a.info]
    ELSE [w EXCEPT !.pc = "ready", !.token_info = a.info]

\* token_info = self._auth_manager.authenticate()
SwapAuthenticate(out) ==
    /\ swap # None
    /\ swap[1].pc = "authenticate"
    /\ swap' = Some(setup_authenticated(swap[1],
                                        authenticate(swap[1].token_info, out, now)))
    /\ UNCHANGED <<httpVars, tokenVars, clientVars, queryVars, configVars, authVars,
                   builderVars, grant>>

\* self._config = self._config.with_token(token_info.access_token)
SwapWithToken ==
    /\ swap # None
    /\ swap[1].pc = "with_token"
    /\ swap' = Some([swap[1] EXCEPT
                        !.pc = "close",
                        !.config_token = with_token(@, swap[1].got[1].access_token)])
    /\ UNCHANGED <<httpVars, tokenVars, clientVars, queryVars, configVars, authVars,
                   builderVars, grant>>

\* self._http_client.close()
SwapCloseOld ==
    /\ swap # None
    /\ swap[1].pc = "close"
    /\ swap' = Some([swap[1] EXCEPT !.pc = "new_http"])
    /\ sessions' = [sessions EXCEPT ![swap[1].http].open = FALSE]
    /\ UNCHANGED <<httpVars, tokenVars, client, last, queryVars, configVars, authVars,
                   builderVars, grant>>

\* self._http_client = SyncHTTPClient(self._config)
SwapNewHttp ==
    /\ swap # None
    /\ swap[1].pc = "new_http"
    /\ swap' = Some([swap[1] EXCEPT !.pc = "new_transport", !.http = Len(sessions) + 1])
    /\ sessions' = Append(sessions, [token |-> swap[1].config_token, open |-> TRUE])
    /\ UNCHANGED <<httpVars, tokenVars, client, last, queryVars, configVars, authVars,
                   builderVars, grant>>

\* self._transport = OpenF1Transport(self._http_client, self._config)
SwapNewTransport ==
    /\ swap # None
    /\ swap[1].pc = "new_transport"
    /\ swap' = Some([swap[1] EXCEPT !.pc = "ready", !.transport = swap[1].http,
                                    !.got = None])
    /\ UNCHANGED <<httpVars, tokenVars, clientVars, queryVars, configVars, authVars,
                   builderVars, grant>>

\* OpenF1Client.close(): self._transport.close().
SwapCloseClient ==
    /\ swap # None
    /\ swap[1].pc = "ready"
    /\ swap' = Some([swap[1] EXCEPT !.pc = "closed"])
    /\ sessions' = [sessions EXCEPT ![swap[1].transport].open = FALSE]
    /\ UNCHANGED <<httpVars, tokenVars, client, last, queryVars, configVars, authVars,
                   builderVars, grant>>

\* Time passes.
SwapTick ==
    /\ swap # None
    /\ swap[1].pc \notin {"failed", "closed"}
    /\ now + TickStep <= MaxTime
    /\ now' = now + TickStep
    /\ UNCHANGED <<httpVars, token, created, clientVars, queryVars, configVars, authVars,
                   builderVars, stepVars>>

InitSwap ==
    /\ req = IdleReq
    /\ reqResult = NoError
    /\ now = 0
    /\ token = None
    /\ created = 0
    /\ client = NoClient
    /\ sessions = <<>>
    /\ last = NoLast
    /\ query = None
    /\ fetched = None
    /\ configs = NoConfigs
    /\ headers = <<>>
    /\ provider = None
    /\ authOp = None
    /\ builder = None
    /\ dicts = <<>>
    /\ grant = None
    /\ swap = None

NextSwap ==
    \/ \E k \in ClientKinds : SwapConstruct(k)
    \/ SwapCall
    \/ SwapTest
    \/ \E out \in ExchangeOutcomes : SwapAuthenticate(out)
    \/ SwapWithToken
    \/ SwapCloseOld
    \/ SwapNewHttp
    \/ SwapNewTransport
    \/ SwapCloseClient
    \/ SwapTick

SpecSwap == InitSwap /\ [][NextSwap]_vars

\* C23 (as claimed): while the client's HTTP client is one built from another
\* configuration than the one the client holds (the replaced one), that HTTP
\* client is closed.
C23_OldClientClosedBeforeInstall ==
    swap # None =>
        (sessions[swap[1].http].token # swap[1].config_token =>
            ~sessions[swap[1].http].open)
====
